---- MODULE Spec2Model ----
(***************************************************************************)
(* StudyOwl retrieval-and-enrichment core.                                 *)
(*                                                                         *)
(*   ChunkSpec : the lazy sliding-window chunker chunkTextGenerator.       *)
(*   RestartSpec : the chunker invoked again with the same arguments       *)
(*               while or after an earlier sequence was consumed.          *)
(*   CtxSpec   : buildContextSmart / getPagesRepresentation applied to a   *)
(*               candidate pool, a question, a budget and a page hint.     *)
(*   ChatSpec  : the POST /api/chat handler (page hint detection,          *)
(*               candidate filter, context building, reply or failure).    *)
(*   ScaffoldSpec : scaffoldGraphPrompt with classifyGraphType for one     *)
(*               figure (template rendering or one inference call).        *)
(*   EnrichSpec : enrichGraphDescriptions over the pages of a document.    *)
(*   IngestSpec : the POST /api/documents handler for one document, its   *)
(*               progress record, the eviction timer and the status poll.  *)
(*   ConcurrentSpec : IngestSpec with a clock and a second ingestion that  *)
(*               writes its own entry of the progress map.                 *)
(*   PersistSpec : enrichGraphDescriptions followed by the storage loop,   *)
(*               with the texts of the fragments it pushes.                *)
(*   EagerSpec : the eager chunkText of backend/src/chunkText.js.          *)
(*                                                                         *)
(* Texts of the chunker are represented by their length; a fragment is the *)
(* pair of offsets [from, to) it was sliced from.  Fragment contents of    *)
(* the retrieval side are sequences of tokens joined by single spaces.     *)
(***************************************************************************)
EXTENDS Integers, Sequences, FiniteSets, TLC

VARIABLES
    \* ---- chunkTextGenerator (one generator object) ----
    len,            \* text.length
    size,           \* chunk size argument
    overlap,        \* overlap argument
    start,          \* the generator's cursor
    emitted,        \* fragments yielded so far, as records [from, to]
    gpc,            \* generator position: "entry", "loop", "done"
    earlier,        \* what earlier invocations with the same arguments
                    \* yielded before they were left: [frags, done]
    \* ---- buildContextSmart / chat handler ----
    allChunks,      \* fragments of the document, as the store returns them
    message,        \* the question: [words, pageRef]
    pageNumber,     \* the client's explicit page hint (or NoHint)
    pageHint,       \* the hint the handler ends up with
    chunks,         \* the candidate pool handed to buildContextSmart
    maxChars,       \* character budget
    topChunks,      \* ranked selection, as indices into chunks
    context,        \* value returned by buildContextSmart
    cpc,            \* "idle", "ready", "returned" (buildContextSmart), and the
                    \* handler's ends "replied", "failed", "crashed", "notfound"
    \* ---- scaffoldGraphPrompt (one call) ----
    surroundingText,    \* the page text handed to the call
    graphMetadata,      \* the figure's metadata: [extractedText]
    classification,     \* result of classifyGraphType: [index, matchScore]
    inferenceCalls,     \* inference calls made by this call
    inferenceFailed,    \* the inference call of this call threw
    inflight,           \* inference requests sent and not yet settled
    scaffolded,         \* the text the call returns, as a sequence of lines
    spc,                \* "idle", "entry", "awaiting", "returned", "thrown"
    \* ---- enrichGraphDescriptions ----
    pageTexts,          \* pages: [pageNumber, text, figureMetadata]
    pageIdx,            \* position of the for..of over pageTexts
    figIndex,           \* figure index within the page (zero-based)
    enrichmentCount,
    outcomes,           \* per scaffolded figure: [pageNumber, figure, failed]
    persisted,          \* fragments pushed by the storage loop, with their
                        \* texts: [pageNumber, sectionTitle, content]
    epc,                \* "idle", "loop", "calling", "returned"
    \* ---- POST /api/documents (one request) and GET .../status ----
    uploadProgress,     \* the map's entry for documentId, or Absent
    otherProgress,      \* the map's entry of another request's documentId
    now,                \* Date.now()
    updates,            \* the [stage, progress] pairs set for documentId
    pdf,                \* the uploaded document: one page kind per page
    totalPages,         \* pdfDoc.getPageCount()
    batchStart,         \* the analysis loop's i
    allPages,           \* page records collected from the analysis batches
    docPages,           \* the handler's pageTexts, after enrichment
    estimatedTotalChunks,
    totalChunks,
    pageCursor,         \* position of the for..of over pageTexts
    pageWritten,        \* fragments of the current page already written
    stored,             \* bulk writes so far: [pageNumber, origin, first,
                        \* count], first being the page's fragment index
    evictTimer,         \* the setTimeout of the eviction is pending
    pollResult,         \* response to the latest status poll
    response,           \* the handler's response: [status, documentId,
                        \* chunksWritten], documentId: the body carries one
    ipc                 \* "idle", "received", "upload", "analyze", "enrich",
                        \* "store", "done", "failed", "rejected"

genVars == <<len, size, overlap, start, emitted, gpc, earlier>>
ctxVars == <<allChunks, message, pageNumber, pageHint, chunks, maxChars,
             topChunks, context, cpc>>
sclVars == <<surroundingText, graphMetadata, classification, inferenceCalls,
             inferenceFailed, inflight, scaffolded, spc>>
enrVars == <<pageTexts, pageIdx, figIndex, enrichmentCount, outcomes,
             persisted, epc>>
ingVars == <<uploadProgress, otherProgress, now, updates, pdf, totalPages, batchStart, allPages, docPages,
             estimatedTotalChunks, totalChunks, pageCursor, pageWritten, stored,
             evictTimer, pollResult, response, ipc>>
vars == <<len, size, overlap, start, emitted, gpc, earlier,
          allChunks, message, pageNumber, pageHint, chunks, maxChars,
          topChunks, context, cpc,
          surroundingText, graphMetadata, classification, inferenceCalls,
          inferenceFailed, inflight, scaffolded, spc,
          pageTexts, pageIdx, figIndex, enrichmentCount, outcomes, persisted,
          epc,
          uploadProgress, otherProgress, now, updates, pdf, totalPages,
          batchStart, allPages, docPages,
          estimatedTotalChunks, totalChunks, pageCursor, pageWritten, stored,
          evictTimer, pollResult, response, ipc>>

\* what the chunker, and what the retrieval side, leaves alone
notGen == <<ctxVars, sclVars, enrVars, ingVars>>
notCtx == <<genVars, sclVars, enrVars, ingVars>>

Min(a, b) == IF a < b THEN a ELSE b
Max(a, b) == IF a > b THEN a ELSE b

(***************************************************************************)
(* Bounds                                                                  *)
(***************************************************************************)
MaxTextLen == 14
MaxSize    == 12
MaxOverlap == 13
MaxCopies  == 2     \* copies of one catalogue fragment in a candidate pool
ChatCopies == 1     \* the same, for the pools the chat handler reads
MaxWords   == 2     \* words of a question
ChatWords  == 1     \* the same, for the questions sent to the chat handler
MaxHint    == 5     \* largest page hint

NoHint == -1        \* pageNumber absent from the request (undefined)

(***************************************************************************)
(* chunkTextGenerator                                                      *)
(***************************************************************************)
\* no overlap at all: every fragment starts where the previous one ended
SafeOverlap_None(sz, ov) == 0

\* Math.min(overlap, size - 1)
SafeOverlap(sz, ov) == Min(ov, sz - 1)

\* a step computed as in the eager chunker: size - overlap, not clamped
StepUnclamped(sz, ov) == sz - ov

Step(sz, ov) == Max(1, sz - SafeOverlap(sz, ov))

\* the early stop taken below a fifth of the size
CloseToEnd_Fifth(l, st, sz) == 5 * (l - st) < sz

\* len - start < size * 0.1, in integers
CloseToEnd(l, st, sz) == 10 * (l - st) < sz

\* the slice end is not clamped to the text
SliceEnd_Unclamped(st, sz, l) == st + sz

\* const end = Math.min(start + size, len)
SliceEnd(st, sz, l) == Min(st + sz, l)

\* the cursor is kept from the generator that ran before
EntryStart_Shared(st) == st

\* let start = 0 : every generator object has its own cursor
EntryStart(st) == 0

GenIdle ==
    /\ len = 0 /\ size = 1 /\ overlap = 0 /\ start = 0
    /\ emitted = <<>> /\ gpc = "done"
    /\ earlier = <<>>

CtxIdle ==
    /\ allChunks = <<>>
    /\ message = [words |-> <<>>, pageRef |-> NoHint]
    /\ pageNumber = NoHint /\ pageHint = NoHint
    /\ chunks = <<>> /\ maxChars = 0
    /\ topChunks = <<>>
    /\ context = [kind |-> "none"]
    /\ cpc = "idle"

\* no classification performed: bestMatch is null
NoMatch == [index |-> 0, matchScore |-> 0]

SclIdle ==
    /\ surroundingText = <<>>
    /\ graphMetadata = [extractedText |-> <<>>]
    /\ classification = NoMatch
    /\ inferenceCalls = 0 /\ inferenceFailed = FALSE
    /\ inflight = 0
    /\ scaffolded = [kind |-> "none", index |-> 0, body |-> <<>>, lines |-> <<>>]
    /\ spc = "idle"

EnrIdle ==
    /\ pageTexts = <<>>
    /\ pageIdx = 1 /\ figIndex = 0
    /\ enrichmentCount = 0
    /\ outcomes = <<>>
    /\ persisted = <<>>
    /\ epc = "idle"

\* uploadProgress.get(documentId) is undefined
Absent == [stage |-> "absent", progress |-> 0, startTime |-> 0]

NoPoll == [status |-> 0, stage |-> "", progress |-> 0]

IngIdle ==
    /\ uploadProgress = Absent
    /\ otherProgress = Absent /\ now = 0 /\ updates = {}
    /\ pdf = <<>> /\ totalPages = 0 /\ batchStart = 0
    /\ allPages = <<>> /\ docPages = <<>>
    /\ estimatedTotalChunks = 0 /\ totalChunks = 0
    /\ pageCursor = 1 /\ pageWritten = 0
    /\ stored = <<>>
    /\ evictTimer = FALSE
    /\ pollResult = NoPoll
    /\ response = [status |-> 0, documentId |-> FALSE, chunksWritten |-> 0]
    /\ ipc = "idle"

ChunkInit ==
    /\ len \in 0..MaxTextLen
    /\ size \in 1..MaxSize
    /\ overlap \in 0..MaxOverlap
    /\ start = 0
    /\ emitted = <<>>
    /\ gpc = "entry"
    /\ earlier = <<>>
    /\ CtxIdle /\ SclIdle /\ EnrIdle /\ IngIdle

\* if (!text || text.length === 0) return ; let start = 0
GenEnter ==
    /\ gpc = "entry"
    /\ start' = EntryStart(start)
    /\ gpc' = IF len = 0 THEN "done" ELSE "loop"
    /\ UNCHANGED <<len, size, overlap, emitted, earlier>>
    /\ UNCHANGED notGen

\* one iteration of the while loop: slice, yield, advance, early stop; the
\* generator returns at the break or when the loop condition start < len fails
GenIterate ==
    /\ gpc = "loop"
    /\ start < len
    /\ LET end == SliceEnd(start, size, len)
           next == start + Step(size, overlap)
       IN  /\ emitted' = IF end - start > 0
                         THEN Append(emitted, [from |-> start, to |-> end])
                         ELSE emitted
           /\ start' = next
           /\ gpc' = IF CloseToEnd(len, next, size) \/ ~(next < len)
                     THEN "done" ELSE "loop"
    /\ UNCHANGED <<len, size, overlap, earlier>>
    /\ UNCHANGED notGen

ChunkNext == GenEnter \/ GenIterate

ChunkSpec == ChunkInit /\ [][ChunkNext]_vars

\* the consumer (Array.from, for..of) keeps pulling until the generator returns
ChunkFairSpec == ChunkSpec /\ WF_vars(ChunkNext)

MaxRestartLen  == 7     \* text length of a re-invoked chunker
MaxRestartSize == 4     \* its size and overlap arguments
MaxRestarts    == 2     \* invocations after the first

RestartInit ==
    /\ len \in 0..MaxRestartLen
    /\ size \in 1..MaxRestartSize
    /\ overlap \in 0..MaxRestartSize
    /\ start = 0
    /\ emitted = <<>>
    /\ gpc = "entry"
    /\ earlier = <<>>
    /\ CtxIdle /\ SclIdle /\ EnrIdle /\ IngIdle

\* chunkTextGenerator(text, size, overlap) is called again with the same
\* arguments; the generator in use is left where it stands
GenRestart ==
    /\ gpc \in {"loop", "done"}
    /\ Len(earlier) < MaxRestarts
    /\ earlier' = Append(earlier, [frags |-> emitted, done |-> gpc = "done"])
    /\ emitted' = <<>>
    /\ gpc' = "entry"
    /\ UNCHANGED <<len, size, overlap, start>>
    /\ UNCHANGED notGen

RestartNext == GenEnter \/ GenIterate \/ GenRestart

RestartSpec == RestartInit /\ [][RestartNext]_vars

(***************************************************************************)
(* Fragment contents                                                       *)
(*                                                                         *)
(* A content is a sequence of tokens; the string is the tokens joined by   *)
(* single spaces (<<>> is the empty string).  Tokens:                      *)
(*   "alpha"       alpha                                                   *)
(*   "beta"        beta                                                    *)
(*   "of"          of                                                      *)
(*   "[FIGURE 1]"  the figure marker (it contains one space)               *)
(*   "alpharun"    alpha,alpha,...,alpha : RunCount copies of alpha        *)
(*                 separated by commas, no white space                     *)
(***************************************************************************)
RunCount == 26

\* String.length of a token
TokLen(t) ==
    CASE t = "alpha"      -> 5
      [] t = "beta"       -> 4
      [] t = "of"         -> 2
      [] t = "[FIGURE 1]" -> 10
      [] t = "alpharun"   -> 5 * RunCount + (RunCount - 1)

\* number of pieces token t contributes to text.split(/\s+/)
TokPieces(t) == IF t = "[FIGURE 1]" THEN 2 ELSE 1

\* (lowercased t).match(new RegExp(`\\b${kw}\\b`, 'g')).length
TokMatches(t, kw) ==
    CASE t = "alpha" /\ kw = "alpha"       -> 1
      [] t = "alpharun" /\ kw = "alpha"    -> RunCount
      [] t = "beta" /\ kw = "beta"         -> 1
      [] t = "[FIGURE 1]" /\ kw = "figure" -> 1
      [] OTHER                             -> 0

\* /\[graph (structure|interpretation)\]|\[figure \d+\]/i.test(content)
TokMarker(t) == t = "[FIGURE 1]"

RECURSIVE SumSeq(_)
SumSeq(q) == IF q = <<>> THEN 0 ELSE Head(q) + SumSeq(Tail(q))

\* (c.content || '').length
ContentLen(c) ==
    IF c = <<>> THEN 0
    ELSE SumSeq([k \in 1..Len(c) |-> TokLen(c[k])]) + (Len(c) - 1)

\* text.split(/\s+/).length || 1   (''.split gives [''], length 1)
WordCount(c) ==
    IF c = <<>> THEN 1 ELSE SumSeq([k \in 1..Len(c) |-> TokPieces(c[k])])

MatchCount(c, kw) == SumSeq([k \in 1..Len(c) |-> TokMatches(c[k], kw)])

HasMarker(c) == \E k \in 1..Len(c) : TokMarker(c[k])

(***************************************************************************)
(* Questions: [words, pageRef]; pageRef # NoHint stands for the text       *)
(* "page <pageRef>" occurring in the message.                              *)
(***************************************************************************)
\* number of letters of a question word
QWordLen(w) ==
    CASE w = "why"    -> 3
      [] w = "alpha"  -> 5
      [] w = "beta"   -> 4
      [] w = "figure" -> 6
      [] w = "page"   -> 4

\* (message || '').toLowerCase().match(/[a-zA-Z]{4,}/g) || []
Keywords(msg) ==
    LET ws == IF msg.pageRef = NoHint THEN msg.words
              ELSE Append(msg.words, "page")
    IN  SelectSeq(ws, LAMBDA w : QWordLen(w) >= 4)

\* /figure|graph|chart|diagram|plot|curve|illustration|image|visual/i.test(message)
IsGraphQuery(msg) == \E k \in 1..Len(msg.words) : msg.words[k] = "figure"

(***************************************************************************)
(* Scores.  A score is the rational num/den with den = wordCount and       *)
(* logarithms in millionths; ln(k) is the sum of the logarithms of the     *)
(* prime factors of k, so equal real scores are equal here.  Rounding of   *)
(* IEEE doubles is not modelled.                                           *)
(***************************************************************************)
LnPrime(p) ==
    CASE p = 2  -> 693147
      [] p = 3  -> 1098612
      [] p = 5  -> 1609438
      [] p = 7  -> 1945910
      [] p = 11 -> 2397895
      [] p = 13 -> 2564949
      [] p = 17 -> 2833213
      [] p = 19 -> 2944439
      [] p = 23 -> 3135494
      [] p = 29 -> 3367296
      [] p = 31 -> 3433987
      [] p = 37 -> 3610918
      [] p = 41 -> 3713572
      [] p = 43 -> 3761200
      [] p = 47 -> 3850148

RECURSIVE LnMicro(_)
LnMicro(k) ==
    IF k <= 1 THEN 0
    ELSE LET p == CHOOSE d \in 2..k :
                     /\ k % d = 0
                     /\ \A e \in 2..(d - 1) : k % e # 0
         IN  LnPrime(p) + LnMicro(k \div p)

\* chunks.filter(c => new RegExp(`\\b${kw}\\b`, 'i').test(c.content || '')).length
ChunksWithTerm(cs, kw) ==
    Cardinality({i \in 1..Len(cs) : MatchCount(cs[i].content, kw) > 0})

\* Math.log((chunks.length + 1) / (chunksWithTerm + 1))
Idf(cs, kw) == LnMicro(Len(cs) + 1) - LnMicro(ChunksWithTerm(cs, kw) + 1)

BoostMicro == 10000000      \* tfidfScore += 10.0

\* the boost left out
BoostOf_None(isGraph, c) == 0

BoostOf(isGraph, c) == IF isGraph /\ HasMarker(c) THEN BoostMicro ELSE 0

\* numerator of the tf-idf sum of chunk i over the keyword list
TfIdfNum(cs, i, kws) ==
    SumSeq([k \in 1..Len(kws) |->
               MatchCount(cs[i].content, kws[k]) * Idf(cs, kws[k])])

\* an array: the function with its elements evaluated once
AsArray(f) == f \o <<>>

\* scoredChunks = chunks.map(...): one [num, den] per chunk
ScoredChunks(cs, kws, isGraph) ==
    LET idf == AsArray([k \in 1..Len(kws) |-> Idf(cs, kws[k])])
    IN  AsArray([i \in 1..Len(cs) |->
           LET c == cs[i].content
               wc == WordCount(c)
           IN  [num |-> BoostOf(isGraph, c) * wc
                        + SumSeq([k \in 1..Len(kws) |->
                                     MatchCount(c, kws[k]) * idf[k]]),
                den |-> wc]])

ScoreLess(a, b)  == a.num * b.den < b.num * a.den
ScoreEq(a, b)    == a.num * b.den = b.num * a.den
ScorePositive(a) == a.num > 0

(***************************************************************************)
(* buildContextSmart.  Chunks are identified by their index in the pool.   *)
(***************************************************************************)
TOP_GRAPH == 5
K == 3

\* JavaScript truthiness of a page hint: undefined/null and 0 are falsy
Truthy(h) == h # NoHint /\ h # 0

\* q.sort((a, b) => b.score - a.score): Array.prototype.sort is stable, so
\* q[k] is preceded by the elements that score higher and by the elements
\* of equal score that stood before it
SortByScoreDesc(q, sc) ==
    LET before(k) ==
            Cardinality({j \in 1..Len(q) :
                            \/ ScoreLess(sc[q[k]], sc[q[j]])
                            \/ ScoreEq(sc[q[k]], sc[q[j]]) /\ j < k})
    IN  AsArray([r \in 1..Len(q) |->
                    q[CHOOSE k \in 1..Len(q) : before(k) = r - 1]])

\* q.slice(0, n)
Slice(q, n) == SubSeq(q, 1, Min(n, Len(q)))

Indices(cs) == AsArray([i \in 1..Len(cs) |-> i])

\* graphChunks: marker-bearing chunks, those of the hinted page first
GraphChunks(cs, isGraph, hint) ==
    IF ~isGraph THEN <<>>
    ELSE LET g == SelectSeq(Indices(cs), LAMBDA i : HasMarker(cs[i].content))
         IN  IF Truthy(hint) /\ g # <<>>
             THEN SelectSeq(g, LAMBDA i : cs[i].pageNumber = hint)
                  \o SelectSeq(g, LAMBDA i : cs[i].pageNumber # hint)
             ELSE g

Includes(q, x) == \E k \in 1..Len(q) : q[k] = x

\* one ranked list of the whole pool, cut at TOP_GRAPH + K
TopChunks_Unpartitioned(cs, sc, isGraph, graphChunks) ==
    Slice(SortByScoreDesc(Indices(cs), sc), TOP_GRAPH + K)

\* the regular search without its .filter((x) => x.score > 0)
TopChunks_NoPositiveFilter(cs, sc, isGraph, graphChunks) ==
    IF isGraph /\ graphChunks # <<>>
    THEN TopChunks_Unpartitioned(cs, sc, isGraph, graphChunks)
    ELSE Slice(SortByScoreDesc(Indices(cs), sc), K)

\* topChunks
TopChunks(cs, sc, isGraph, graphChunks) ==
    IF isGraph /\ graphChunks # <<>>
    THEN LET graphScored ==
                 SortByScoreDesc(
                     SelectSeq(Indices(cs), LAMBDA i : Includes(graphChunks, i)),
                     sc)
             nonGraph ==
                 SortByScoreDesc(
                     SelectSeq(Indices(cs), LAMBDA i : ~Includes(graphChunks, i)),
                     sc)
         IN  Slice(graphScored, TOP_GRAPH) \o Slice(nonGraph, K)
    ELSE SelectSeq(Slice(SortByScoreDesc(Indices(cs), sc), K),
                   LAMBDA i : ScorePositive(sc[i]))

\* number of decimal digits of a page number
Digits(n) == IF n < 10 THEN 1 ELSE IF n < 100 THEN 2 ELSE 3

\* `[Page ${c.pageNumber}] ${text}`.length
BlockLen(c) == 6 + Digits(c.pageNumber) + 2 + ContentLen(c.content)

\* the packing loop with the over-budget fragment skipped and the loop continued
RECURSIVE Assemble_Continue(_, _, _)
Assemble_Continue(cs, top, remaining) ==
    IF top = <<>> THEN <<>>
    ELSE LET c == cs[Head(top)]
             needed == BlockLen(c) + 2
         IN  IF c.content = <<>> THEN Assemble_Continue(cs, Tail(top), remaining)
             ELSE IF needed > remaining
                  THEN Assemble_Continue(cs, Tail(top), remaining)
                  ELSE <<Head(top)>>
                       \o Assemble_Continue(cs, Tail(top), remaining - needed)

\* for (const c of topChunks) { ... }: the retained parts
RECURSIVE Assemble(_, _, _)
Assemble(cs, top, remaining) ==
    IF top = <<>> THEN <<>>
    ELSE LET c == cs[Head(top)]
             needed == BlockLen(c) + 2
         IN  IF c.content = <<>> THEN Assemble(cs, Tail(top), remaining)
             ELSE IF needed > remaining THEN <<>>
                  ELSE <<Head(top)>>
                       \o Assemble(cs, Tail(top), remaining - needed)

\* parts.join("\n\n").length
JoinedLen(cs, parts) ==
    IF parts = <<>> THEN 0
    ELSE SumSeq([k \in 1..Len(parts) |-> BlockLen(cs[parts[k]])])
         + 2 * (Len(parts) - 1)

\* set of page numbers as an ascending list
RECURSIVE SortedPages(_)
SortedPages(S) ==
    IF S = {} THEN <<>>
    ELSE LET m == CHOOSE x \in S : \A y \in S : x <= y
         IN  <<m>> \o SortedPages(S \ {m})

\* getPagesRepresentation: scoredChunks.find((x) => x.c === c)?.s || 0 is 0
\* for every chunk (the entries carry .chunk and .score), so each page is
\* represented by its first longest chunk
GetPagesRepresentation(cs) ==
    LET pageKeys == SortedPages({cs[i].pageNumber : i \in 1..Len(cs)})
        Rep(p) ==
            LET list == {i \in 1..Len(cs) : cs[i].pageNumber = p}
            IN  CHOOSE i \in list :
                    \A j \in list :
                        \/ ContentLen(cs[j].content) < ContentLen(cs[i].content)
                        \/ /\ ContentLen(cs[j].content) = ContentLen(cs[i].content)
                           /\ i <= j
    IN  [k \in 1..Len(pageKeys) |-> Rep(pageKeys[k])]

\* buildContextSmart(chunks, message, maxChars, pageHint): the selection it
\* ranks and the value it returns, a joined string (kind "string", its
\* retained parts and its length) or an array of chunk objects (kind "array")
BuildContextSmart(cs, msg, mc, hint) ==
    LET keywords == Keywords(msg)
        isGraphQuery == IsGraphQuery(msg)
    IN  IF keywords = <<>>
        THEN [top |-> <<>>,
              ret |-> [kind |-> "array", items |-> GetPagesRepresentation(cs),
                       length |-> 0]]
        ELSE LET graphChunks == GraphChunks(cs, isGraphQuery, hint)
                 sc == ScoredChunks(cs, keywords, isGraphQuery)
                 top == TopChunks(cs, sc, isGraphQuery, graphChunks)
             IN  IF top # <<>>
                 THEN LET parts == Assemble(cs, top, mc)
                      IN  [top |-> top,
                           ret |-> [kind |-> "string", items |-> parts,
                                    length |-> JoinedLen(cs, parts)]]
                 ELSE [top |-> top,
                       ret |-> [kind |-> "array",
                                items |-> GetPagesRepresentation(cs),
                                length |-> 0]]

(***************************************************************************)
(* Inputs                                                                  *)
(***************************************************************************)
\* fragments a pool is made of, in page order (ORDER BY c.pageNumber)
KindCatalog ==
    << [pageNumber |-> 1, content |-> <<"alpha">>],
       [pageNumber |-> 1, content |-> <<"[FIGURE 1]">>],
       [pageNumber |-> 2, content |-> <<"[FIGURE 1]", "alpha">>],
       [pageNumber |-> 2, content |-> <<"alpha", "of", "beta", "of">>],
       [pageNumber |-> 3, content |-> <<"[FIGURE 1]">>],
       [pageNumber |-> 3, content |-> <<>>],
       [pageNumber |-> 3, content |-> <<"alpharun">>] >>

\* a figure block may be stored several times (its dedicated fragment and the
\* text chunks that contain it); the other fragments occur at most once
CopiesOf(k, maxc) == IF HasMarker(KindCatalog[k].content) THEN maxc ELSE 1

RECURSIVE Expand(_, _)
Expand(m, k) ==
    IF k = 0 THEN <<>>
    ELSE Expand(m, k - 1) \o [j \in 1..m[k] |-> KindCatalog[k]]

Pools(maxc) ==
    { Expand(m, Len(KindCatalog)) :
        m \in { f \in [1..Len(KindCatalog) -> 0..Max(1, maxc)] :
                  \A k \in 1..Len(KindCatalog) : f[k] <= CopiesOf(k, maxc) } }

QWords == {"why", "alpha", "figure"}

WordLists == UNION { [1..n -> QWords] : n \in 1..MaxWords }

ChatWordLists == UNION { [1..n -> QWords] : n \in 1..ChatWords }

MaxCharsValues == {20, 45, 6000}

CtxHints == {NoHint, 3}

ChatHints == {NoHint} \cup {0, 1, 3, MaxHint}

(***************************************************************************)
(* CtxSpec: buildContextSmart applied to a pool                            *)
(***************************************************************************)
CtxInit ==
    /\ GenIdle /\ SclIdle /\ EnrIdle /\ IngIdle
    /\ allChunks \in Pools(MaxCopies)
    /\ message = [words |-> <<>>, pageRef |-> NoHint]
    /\ pageNumber = NoHint /\ pageHint = NoHint
    /\ chunks = <<>> /\ maxChars = 0
    /\ topChunks = <<>>
    /\ context = [kind |-> "none"]
    /\ cpc = "ready"

CallBuildContext ==
    /\ cpc = "ready"
    /\ \E ws \in WordLists, mc \in MaxCharsValues, h \in CtxHints :
          LET msg == [words |-> ws, pageRef |-> NoHint]
          IN  \E r \in {BuildContextSmart(allChunks, msg, mc, h)} :
              /\ message' = msg
              /\ maxChars' = mc
              /\ pageHint' = h
              /\ chunks' = allChunks
              /\ topChunks' = r.top
              /\ context' = r.ret
    /\ cpc' = "returned"
    /\ UNCHANGED <<allChunks, pageNumber>>
    /\ UNCHANGED notCtx

CtxNext == CallBuildContext

CtxSpec == CtxInit /\ [][CtxNext]_vars

(***************************************************************************)
(* ChatSpec: POST /api/chat                                                *)
(***************************************************************************)
CHAT_MAX_CHARS == 6000

\* let pageHint = pageNumber; if (!pageHint && pageMatch) pageHint = parseInt(...)
DetectPageHint(pn, msg) ==
    IF ~Truthy(pn) /\ msg.pageRef # NoHint THEN msg.pageRef ELSE pn

\* a window of the hinted page alone
WindowPages_HintOnly(h) == {h}

\* [pageHint - 1, pageHint, pageHint + 1].filter(p => p >= 1)
WindowPages(h) == {p \in {h - 1, h, h + 1} : p >= 1}

\* the page filter without the fall back to all pages
CandidateChunks_NoFallback(all, h) ==
    IF Truthy(h)
    THEN SelectSeq(all, LAMBDA c : c.pageNumber \in WindowPages(h))
    ELSE all

\* candidateChunks
CandidateChunks(all, h) ==
    IF Truthy(h)
    THEN LET filtered ==
                 SelectSeq(all, LAMBDA c : c.pageNumber \in WindowPages(h))
         IN  IF Len(filtered) = 0 THEN all ELSE filtered
    ELSE all

ChatInit ==
    /\ GenIdle /\ SclIdle /\ EnrIdle /\ IngIdle
    /\ allChunks \in Pools(ChatCopies)
    /\ message = [words |-> <<>>, pageRef |-> NoHint]
    /\ pageNumber = NoHint /\ pageHint = NoHint
    /\ chunks = <<>> /\ maxChars = 0
    /\ topChunks = <<>>
    /\ context = [kind |-> "none"]
    /\ cpc = "ready"

\* the handler up to the point where documentContext is first used as a string
ChatCompute(msg, pn) ==
    LET h == DetectPageHint(pn, msg)
        cand == CandidateChunks(allChunks, h)
    IN  [hint |-> h, cand |-> cand,
         r |-> BuildContextSmart(cand, msg, CHAT_MAX_CHARS, h)]

ChatRecord(msg, pn, x) ==
    /\ message' = msg
    /\ pageNumber' = pn
    /\ pageHint' = x.hint
    /\ chunks' = x.cand
    /\ maxChars' = CHAT_MAX_CHARS
    /\ topChunks' = x.r.top
    /\ context' = x.r.ret
    /\ UNCHANGED allChunks
    /\ UNCHANGED notCtx

\* if (!allChunks || allChunks.length === 0) return res.status(404)
ChatNotFound ==
    /\ cpc = "ready"
    /\ Len(allChunks) = 0
    /\ \E ws \in ChatWordLists, pref \in ChatHints, pn \in ChatHints :
          /\ message' = [words |-> ws, pageRef |-> pref]
          /\ pageNumber' = pn
    /\ cpc' = "notfound"
    /\ UNCHANGED <<allChunks, pageHint, chunks, maxChars, topChunks, context>>
    /\ UNCHANGED notCtx

\* the context is a string, the completion call succeeds: res.json({ reply })
ChatReplied ==
    /\ cpc = "ready"
    /\ Len(allChunks) > 0
    /\ \E ws \in ChatWordLists, pref \in ChatHints, pn \in ChatHints :
          LET msg == [words |-> ws, pageRef |-> pref]
          IN  \E x \in {ChatCompute(msg, pn)} :
                 /\ x.r.ret.kind = "string"
                 /\ ChatRecord(msg, pn, x)
    /\ cpc' = "replied"

\* the context is a string, the completion call throws: status 500
ChatCompletionFailed ==
    /\ cpc = "ready"
    /\ Len(allChunks) > 0
    /\ \E ws \in ChatWordLists, pref \in ChatHints, pn \in ChatHints :
          LET msg == [words |-> ws, pageRef |-> pref]
          IN  \E x \in {ChatCompute(msg, pn)} :
                 /\ x.r.ret.kind = "string"
                 /\ ChatRecord(msg, pn, x)
    /\ cpc' = "failed"

\* the context is an array: documentContext.substring is not a function,
\* the TypeError is caught and answered with status 500
ChatContextNotString ==
    /\ cpc = "ready"
    /\ Len(allChunks) > 0
    /\ \E ws \in ChatWordLists, pref \in ChatHints, pn \in ChatHints :
          LET msg == [words |-> ws, pageRef |-> pref]
          IN  \E x \in {ChatCompute(msg, pn)} :
                 /\ x.r.ret.kind = "array"
                 /\ ChatRecord(msg, pn, x)
    /\ cpc' = "crashed"

ChatNext ==
    \/ ChatNotFound
    \/ ChatReplied
    \/ ChatCompletionFailed
    \/ ChatContextNotString

ChatSpec == ChatInit /\ [][ChatNext]_vars

(***************************************************************************)
(* Graph template catalogue and classifyGraphType                          *)
(*                                                                         *)
(* A text is a sequence of tokens (records).  Its lower-cased words are    *)
(* what keywords are searched in: a keyword occurs when its words occur    *)
(* consecutively, the first as the end and the last as the start of a      *)
(* word of the text ("market" occurs in "markets").  "#" stands for text   *)
(* in which no catalogue keyword occurs and which separates its            *)
(* neighbours.                                                            *)
(***************************************************************************)
MaxPageWords    == 2    \* words of a page text handed to one call
MaxVisibleWords == 1    \* words of a figure's extracted text

\* five of the catalogue's templates, in Object.entries order
GRAPH_TEMPLATES == <<
    [domain |-> "economics", templateName |-> "labor-market-monopsony",
     template |-> [
       keywords |-> <<"monopsony", "labor market", "single firm",
                      "hires labor", "fewer people", "underpaid">>,
       axes |-> [x |-> "Quantity of Labor (L)", y |-> "Wage Rate (W)"],
       curves |-> <<
         [name |-> "Labor Supply", slope |-> "upward"],
         [name |-> "Marginal Cost of Labor (MCL)", slope |-> "upward (steeper)"],
         [name |-> "Labor Demand / Marginal Revenue Product (MRP)",
          slope |-> "downward"]>>,
       insight |-> "Monopsonist hires where MCL = MRP"]],
    [domain |-> "economics", templateName |-> "supply-demand",
     template |-> [
       keywords |-> <<"supply", "demand", "equilibrium", "market", "price",
                      "quantity">>,
       axes |-> [x |-> "Quantity (Q)", y |-> "Price (P)"],
       curves |-> <<
         [name |-> "Demand", slope |-> "downward"],
         [name |-> "Supply", slope |-> "upward"]>>,
       insight |-> "Equilibrium occurs where supply equals demand"]],
    [domain |-> "chemistry", templateName |-> "equilibrium",
     template |-> [
       keywords |-> <<"equilibrium", "Le Chatelier", "forward", "reverse",
                      "Keq", "reaction quotient">>,
       axes |-> [x |-> "Time", y |-> "Concentration"],
       curves |-> <<
         [name |-> "Reactants", slope |-> "decreases then plateaus"],
         [name |-> "Products", slope |-> "increases then plateaus"]>>,
       insight |-> "At equilibrium: forward rate = reverse rate"]],
    [domain |-> "physics", templateName |-> "position-time",
     template |-> [
       keywords |-> <<"position", "displacement", "distance", "time",
                      "motion", "velocity">>,
       axes |-> [x |-> "Time (s)", y |-> "Position (m)"],
       curves |-> <<
         [name |-> "Position vs time", slope |-> "varies"]>>,
       insight |-> "Slope of position-time graph gives velocity"]],
    [domain |-> "physics", templateName |-> "velocity-time",
     template |-> [
       keywords |-> <<"velocity", "speed", "time", "acceleration",
                      "constant", "motion">>,
       axes |-> [x |-> "Time (s)", y |-> "Velocity (m/s)"],
       curves |-> <<
         [name |-> "Velocity vs time", slope |-> "varies"]>>,
       insight |-> "Slope gives acceleration"]] >>

\* String.prototype.toLowerCase on the words of the texts
Lower(w) ==
    CASE w = "Supply"      -> "supply"
      [] w = "Equilibrium" -> "equilibrium"
      [] w = "KEQ"         -> "keq"
      [] OTHER             -> w

\* keyword.toLowerCase(), as its words
KeywordWords(kw) ==
    CASE kw = "labor market"      -> <<"labor", "market">>
      [] kw = "single firm"       -> <<"single", "firm">>
      [] kw = "hires labor"       -> <<"hires", "labor">>
      [] kw = "fewer people"      -> <<"fewer", "people">>
      [] kw = "Le Chatelier"      -> <<"le", "chatelier">>
      [] kw = "Keq"               -> <<"keq">>
      [] kw = "reaction quotient" -> <<"reaction", "quotient">>
      [] OTHER                    -> <<kw>>

\* k is a substring of the word w / w starts with k / w ends with k
WordHas(w, k) == w = k \/ (w = "markets" /\ k = "market")
StartsWith(w, k) == w = k \/ (w = "markets" /\ k = "market")
EndsWith(w, k) == w = k

\* combined.includes(keyword.toLowerCase())
Occurs(kw, words) ==
    LET ks == KeywordWords(kw)
        n  == Len(ks)
    IN  \E p \in 1..(Len(words) - n + 1) :
            IF n = 1 THEN WordHas(words[p], ks[1])
            ELSE /\ EndsWith(words[p], ks[1])
                 /\ StartsWith(words[p + n - 1], ks[n])
                 /\ \A j \in 2..(n - 1) : words[p + j - 1] = ks[j]

\* the catalogue strings are atoms: insight sentences are cut to their first
\* clause and the curves keep name and slope (the meaning sentence is left
\* out); RenderedWords below lists the keywords those sentences contain
RenderedWords(index) ==
    CASE index = 1 -> <<"monopsony", "#", "labor", "market", "#", "single",
                        "firm", "#", "supply", "#", "demand", "#", "quantity">>
      [] index = 2 -> <<"supply", "#", "demand", "#", "equilibrium", "#",
                        "price", "#", "quantity">>
      [] index = 3 -> <<"equilibrium", "#", "le", "chatelier", "#", "forward",
                        "#", "reverse", "#", "keq", "#", "time", "#",
                        "constant">>
      [] index = 4 -> <<"position", "#", "displacement", "#", "distance", "#",
                        "time", "#", "velocity", "#", "acceleration">>
      [] index = 5 -> <<"velocity", "#", "speed", "#", "time", "#",
                        "acceleration", "#", "constant", "#", "displacement">>

\* classification.templateName.replace(/-/g, ' ')
NameWords(templateName) ==
    CASE templateName = "labor-market-monopsony" -> <<"labor", "market", "monopsony">>
      [] templateName = "supply-demand"          -> <<"supply", "demand">>
      [] templateName = "equilibrium"            -> <<"equilibrium">>
      [] templateName = "position-time"          -> <<"position", "time">>
      [] templateName = "velocity-time"          -> <<"velocity", "time">>

\* tokens of a page text
Word(w) == [t |-> "word", w |-> w]
FigureOpen(n, visible) == [t |-> "figure", n |-> n, visible |-> visible]
FigureEnd(n) == [t |-> "endfigure", n |-> n]
Interpretation(b) == [t |-> "block", block |-> b]

LowerAll(ws) == [k \in 1..Len(ws) |-> Lower(ws[k])]

\* lower-cased words of an interpretation block
BlockWords(b) ==
    CASE b.kind = "template" ->
            <<"#">> \o RenderedWords(b.index) \o <<"#">> \o LowerAll(b.body)
                \o <<"#">>
      [] b.kind = "inferred" -> <<"#">> \o LowerAll(b.body) \o <<"#">>
      [] OTHER -> <<"#">>

\* lower-cased words of one token; a figure's text carries its visible
\* elements between caption and missing-elements lines
TokenWords(tok) ==
    CASE tok.t = "word"      -> <<Lower(tok.w)>>
      [] tok.t = "figure"    -> <<"#">> \o LowerAll(tok.visible) \o <<"#">>
      [] tok.t = "endfigure" -> <<"#">>
      [] tok.t = "block"     -> BlockWords(tok.block)
      [] tok.t = "blockpart" -> IF tok.part = 0 THEN BlockWords(tok.block)
                                ELSE <<"#">>

RECURSIVE TextWords(_)
TextWords(text) ==
    IF text = <<>> THEN <<>>
    ELSE TokenWords(Head(text)) \o TextWords(Tail(text))

\* number of the template's keywords that occur in the combined text
KeywordHits(template, combined) ==
    Cardinality({i \in 1..Len(template.keywords) :
                    Occurs(template.keywords[i], combined)})

\* a later template replaces the best one also when it only equals its score
Better_OrEqual(score, bestScore) == score >= bestScore

\* if (score > bestScore)
Better(score, bestScore) == score > bestScore

RECURSIVE ClassifyFrom(_, _, _)
ClassifyFrom(k, bestMatch, combined) ==
    IF k > Len(GRAPH_TEMPLATES) THEN bestMatch
    ELSE LET score == KeywordHits(GRAPH_TEMPLATES[k].template, combined)
         IN  ClassifyFrom(k + 1,
                 IF Better(score, bestMatch.matchScore)
                 THEN [index |-> k, matchScore |-> score]
                 ELSE bestMatch,
                 combined)

\* combined = `${textLower} ${elementsLower}`; the result names the template
\* by its position in the catalogue, 0 for null
ClassifyGraphType(text, visibleElements) ==
    ClassifyFrom(1, NoMatch,
                 AsArray(TextWords(text) \o LowerAll(visibleElements)))

(***************************************************************************)
(* scaffoldGraphPrompt                                                     *)
(*                                                                         *)
(* The returned text is a record [kind, index, body, lines]: lines are the *)
(* lines of the text in order, each [l, n, v] with its fixed label l, the  *)
(* curve number n (0 elsewhere) and the inserted values v.                 *)
(***************************************************************************)
Line(l, v) == [l |-> l, n |-> 0, v |-> v]

NoText == [kind |-> "none", index |-> 0, body |-> <<>>, lines |-> <<>>]

\* the template is used as soon as one keyword matches
UsesTemplate_AnyMatch(cls) == cls.index # 0 /\ cls.matchScore >= 1

\* if (classification && classification.matchScore >= 2)
UsesTemplate(cls) == cls.index # 0 /\ cls.matchScore >= 2

\* template.curves.map((c, idx) => `- **Curve ${idx + 1}: ${c.name}** ...`)
CurveDescriptions(curves) ==
    [k \in 1..Len(curves) |->
        [l |-> "- **Curve", n |-> k, v |-> <<curves[k].name, curves[k].slope>>]]

\* the template literal of the template branch
RenderTemplate(cls, extractedText) ==
    LET entry == GRAPH_TEMPLATES[cls.index]
        template == entry.template
    IN  [kind |-> "template", index |-> cls.index, body |-> extractedText,
         lines |->
            << Line("[GRAPH STRUCTURE]", <<>>),
               Line("**Graph Type:**",
                    NameWords(entry.templateName) \o <<entry.domain>>),
               Line("- X-axis:", <<template.axes.x>>),
               Line("- Y-axis:", <<template.axes.y>> ) >>
            \o CurveDescriptions(template.curves)
            \o << Line("**Key Insight:**", <<template.insight>>),
                  Line("**Visible Elements Detected:**",
                       IF extractedText # <<>> THEN extractedText
                       ELSE <<"minimal labels">>),
                  Line("**Note:**",
                       <<entry.domain>> \o SubSeq(template.keywords, 1, 3)),
                  Line("[END GRAPH STRUCTURE]", <<>>) >>]

\* the inference output wrapped with markers and the fallback notice
WrapInference(scaffolding) ==
    [kind |-> "inferred", index |-> 0, body |-> scaffolding,
     lines |-> << Line("[GRAPH STRUCTURE]", <<>>),
                  Line("", scaffolding),
                  Line("[FALLBACK NOTICE]:", <<>>),
                  Line("[END GRAPH STRUCTURE]", <<>>) >>]

\* the text returned from the catch block
StubBlock ==
    [kind |-> "stub", index |-> 0, body |-> <<>>,
     lines |-> << Line("[GRAPH STRUCTURE]", <<>>),
                  Line("**Graph Type:**", <<"Cannot be determined">>),
                  Line("**Note:**",
                       <<"Automatic graph structure analysis failed.">>),
                  Line("[END GRAPH STRUCTURE]", <<>>) >>]

\* the failure leaves scaffoldGraphPrompt as an exception
OnInferenceFailure_Rethrow == [thrown |-> TRUE, text |-> NoText]

\* catch (error) { ... return `[GRAPH STRUCTURE] ... [END GRAPH STRUCTURE]` }
OnInferenceFailure == [thrown |-> FALSE, text |-> StubBlock]

\* words the texts are made of
TextVocab ==
    {"Supply", "Equilibrium", "labor", "markets", "KEQ", "time", "velocity",
     "the"}

WordSeqs(n) == UNION {[1..k -> TextVocab] : k \in 0..n}

\* completion.choices[0]?.message?.content || ''
InferenceOutputs == {<<>>, <<"Supply", "demand">>}

ScaffoldInit ==
    /\ GenIdle /\ CtxIdle /\ EnrIdle /\ IngIdle
    /\ \E ws \in WordSeqs(MaxPageWords) :
          surroundingText = [k \in 1..Len(ws) |-> Word(ws[k])]
    /\ \E vs \in WordSeqs(MaxVisibleWords) :
          graphMetadata = [extractedText |-> vs]
    /\ classification = NoMatch
    /\ inferenceCalls = 0 /\ inferenceFailed = FALSE
    /\ inflight = 0
    /\ scaffolded = NoText
    /\ spc = "entry"

\* classify; render from the template, or send the prompt to the model
ScaffoldClassify ==
    /\ spc = "entry"
    /\ \E cls \in {ClassifyGraphType(surroundingText,
                                     graphMetadata.extractedText)} :
          /\ classification' = cls
          /\ IF UsesTemplate(cls)
             THEN /\ scaffolded' = RenderTemplate(cls, graphMetadata.extractedText)
                  /\ spc' = "returned"
                  /\ UNCHANGED <<inferenceCalls, inflight>>
             ELSE /\ inferenceCalls' = inferenceCalls + 1
                  /\ inflight' = inflight + 1
                  /\ spc' = "awaiting"
                  /\ UNCHANGED scaffolded
    /\ UNCHANGED <<surroundingText, graphMetadata, inferenceFailed>>
    /\ UNCHANGED <<genVars, ctxVars, ingVars, enrVars>>

\* await groq.chat.completions.create(...) resolves
InferenceReturns ==
    /\ spc = "awaiting"
    /\ \E out \in InferenceOutputs : scaffolded' = WrapInference(out)
    /\ inflight' = inflight - 1
    /\ spc' = "returned"
    /\ UNCHANGED <<surroundingText, graphMetadata, classification,
                   inferenceCalls, inferenceFailed>>
    /\ UNCHANGED <<genVars, ctxVars, ingVars, enrVars>>

\* await groq.chat.completions.create(...) rejects
InferenceFails ==
    /\ spc = "awaiting"
    /\ inferenceFailed' = TRUE
    /\ inflight' = inflight - 1
    /\ scaffolded' = OnInferenceFailure.text
    /\ spc' = IF OnInferenceFailure.thrown THEN "thrown" ELSE "returned"
    /\ UNCHANGED <<surroundingText, graphMetadata, classification,
                   inferenceCalls>>
    /\ UNCHANGED <<genVars, ctxVars, ingVars, enrVars>>

ScaffoldNext == ScaffoldClassify \/ InferenceReturns \/ InferenceFails

ScaffoldSpec == ScaffoldInit /\ [][ScaffoldNext]_vars

(***************************************************************************)
(* enrichGraphDescriptions                                                 *)
(***************************************************************************)
MaxEnrichPages == 2     \* pages of a document to enrich
MaxFigures     == 2     \* figures on one page

\* what a page can hold besides its figures: the words of its lines and the
\* text elements extractPageTexts attaches to every figure of the page
PageKinds ==
    { [words |-> <<"the">>, visible |-> <<>>],
      [words |-> <<"Supply", "Equilibrium">>, visible |-> <<>>],
      [words |-> <<"time">>, visible |-> <<"velocity">>] }

\* the page record extractPageTexts builds: line text, then for each figure
\* "[FIGURE n] ... [END FIGURE n]"
MakePage(p, kind, nfig) ==
    [pageNumber |-> p,
     text |-> [k \in 1..Len(kind.words) |-> Word(kind.words[k])]
              \o [j \in 1..(2 * nfig) |->
                    IF j % 2 = 1 THEN FigureOpen((j + 1) \div 2, kind.visible)
                    ELSE FigureEnd(j \div 2)],
     figureMetadata |-> [k \in 1..nfig |-> [extractedText |-> kind.visible]]]

Documents ==
    UNION { {[p \in 1..n |-> MakePage(p, f[p][1], f[p][2])] :
                f \in [1..n -> PageKinds \X (0..MaxFigures)]} :
            n \in 0..MaxEnrichPages }

\* the next figure the two nested loops reach from (p, f): pages without
\* figures are skipped; p beyond the last page when there is none
RECURSIVE NextFigure(_, _, _)
NextFigure(pts, p, f) ==
    IF p > Len(pts) THEN <<p, 0>>
    ELSE IF f < Len(pts[p].figureMetadata) THEN <<p, f>>
         ELSE NextFigure(pts, p + 1, 0)

IsEndMarker(tok, n) == tok.t = "endfigure" /\ tok.n = n

\* the word holds $' , which String.prototype.replace expands in a
\* replacement string to the text that follows the match
HasFollowingPattern(w) == w = "$'000"

\* the replacement string `${scaffoldedInterpretation}\n${figureMarker}`
\* without its marker, after substitution: the interpretation, cut into
\* numbered pieces at every $' it holds (in the extracted text the template
\* quotes, or in the inference output), with the text following the match
\* between the pieces
RECURSIVE Substituted(_, _, _)
Substituted(b, part, following) ==
    LET patterns ==
            Cardinality({k \in 1..Len(b.body) : HasFollowingPattern(b.body[k])})
        piece == [t |-> "blockpart", block |-> b, part |-> part]
    IN  IF patterns = 0 THEN <<Interpretation(b)>>
        ELSE IF part = patterns THEN <<piece>>
             ELSE <<piece>> \o following \o Substituted(b, part + 1, following)

\* page.text.replace(figureMarker, `${scaffoldedInterpretation}\n${figureMarker}`):
\* the first occurrence of the marker is replaced
SpliceBefore(text, n, b) ==
    LET hits == {i \in 1..Len(text) : IsEndMarker(text[i], n)}
    IN  IF hits = {} THEN text
        ELSE LET i == CHOOSE x \in hits : \A y \in hits : x <= y
             IN  SubSeq(text, 1, i - 1)
                     \o Substituted(b, 0, SubSeq(text, i + 1, Len(text)))
                     \o SubSeq(text, i, Len(text))

EnrichInit ==
    /\ GenIdle /\ CtxIdle /\ SclIdle /\ IngIdle
    /\ pageTexts \in Documents
    /\ pageIdx = 1 /\ figIndex = 0
    /\ enrichmentCount = 0
    /\ outcomes = <<>>
    /\ persisted = <<>>
    /\ epc = "loop"

\* advance to the next figure and call scaffoldGraphPrompt(figMeta, page.text)
EnrichCall ==
    /\ epc = "loop"
    /\ \E pos \in {NextFigure(pageTexts, pageIdx, figIndex)} :
          /\ pos[1] <= Len(pageTexts)
          /\ pageIdx' = pos[1]
          /\ figIndex' = pos[2]
          /\ surroundingText' = pageTexts[pos[1]].text
          /\ graphMetadata' = pageTexts[pos[1]].figureMetadata[pos[2] + 1]
    /\ classification' = NoMatch
    /\ inferenceCalls' = 0 /\ inferenceFailed' = FALSE
    /\ scaffolded' = NoText
    /\ spc' = "entry"
    /\ epc' = "calling"
    /\ UNCHANGED <<pageTexts, enrichmentCount, outcomes, persisted, inflight>>
    /\ UNCHANGED <<genVars, ctxVars, ingVars>>

\* the loop goes on without waiting for the call it made
Settled_NotAwaited(s) == TRUE

\* await scaffoldGraphPrompt(...): the loop body resumes when the call has
\* returned or thrown
Settled(s) == s \in {"returned", "thrown"}

\* the awaited call settles: splice its text before the figure's end marker,
\* or log the exception; then figIndex++
EnrichSplice ==
    /\ epc = "calling"
    /\ Settled(spc)
    /\ IF spc = "returned" /\ scaffolded.lines # <<>>
       THEN /\ pageTexts' = [pageTexts EXCEPT ![pageIdx].text =
                                SpliceBefore(@, figIndex + 1, scaffolded)]
            /\ enrichmentCount' = enrichmentCount + 1
       ELSE UNCHANGED <<pageTexts, enrichmentCount>>
    /\ outcomes' = Append(outcomes,
                          [pageNumber |-> pageTexts[pageIdx].pageNumber,
                           figure |-> figIndex + 1,
                           failed |-> inferenceFailed])
    /\ figIndex' = figIndex + 1
    /\ spc' = "idle"
    /\ epc' = "loop"
    /\ UNCHANGED <<pageIdx, surroundingText, graphMetadata, classification,
                   inferenceCalls, inferenceFailed, inflight, scaffolded,
                   persisted>>
    /\ UNCHANGED <<genVars, ctxVars, ingVars>>

\* both loops are exhausted: return pageTexts
EnrichReturn ==
    /\ epc = "loop"
    /\ NextFigure(pageTexts, pageIdx, figIndex)[1] > Len(pageTexts)
    /\ epc' = "returned"
    /\ UNCHANGED <<pageTexts, pageIdx, figIndex, enrichmentCount, outcomes,
                   persisted>>
    /\ UNCHANGED <<genVars, ctxVars, ingVars, sclVars>>

EnrichNext ==
    \/ EnrichCall
    \/ ScaffoldClassify
    \/ InferenceReturns
    \/ InferenceFails
    \/ EnrichSplice
    \/ EnrichReturn

EnrichSpec == EnrichInit /\ [][EnrichNext]_vars

(***************************************************************************)
(* POST /api/documents, the eviction timer and GET /api/documents/:id/status *)
(*                                                                         *)
(* One request with its own documentId.  A page of the upload is the       *)
(* length of the text extracted from it (after enrichment) and the number  *)
(* of figure blocks in that text.  Every action is the code between two    *)
(* awaits.                                                                 *)
(***************************************************************************)
MaxDocPages == 3        \* pages of an uploaded document

PAGES_PER_CHUNK == 2
BATCH_SIZE == 50
MAX_CHUNKS_PER_PAGE == 500

IngPageKinds ==
    { [len |-> 0, figures |-> 0],
      [len |-> 900, figures |-> 1],
      [len |-> 2000, figures |-> 0],
      [len |-> 43000, figures |-> 0] }

Uploads == UNION {[1..n -> IngPageKinds] : n \in 0..MaxDocPages}

\* Array.from(chunkTextGenerator(text, size, overlap)).length
RECURSIVE ChunkCountFrom(_, _, _, _)
ChunkCountFrom(l, st, sz, ov) ==
    IF ~(st < l) THEN 0
    ELSE LET next == st + Step(sz, ov)
         IN  1 + (IF CloseToEnd(l, next, sz) THEN 0
                  ELSE ChunkCountFrom(l, next, sz, ov))

ChunkCount(l, sz, ov) == IF l = 0 THEN 0 ELSE ChunkCountFrom(l, 0, sz, ov)

\* the stage and the percentage of one update
ProgressRecord(stage, progress) == [stage |-> stage, progress |-> progress]

\* uploadProgress.set(documentId, { stage, progress, startTime: Date.now() })
Created(rec, t) ==
    [stage |-> rec.stage, progress |-> rec.progress, startTime |-> t]

\* every update stamps the record with the time of the update
CarriedStartTime_Now(entry, t) == t

\* startTime: uploadProgress.get(documentId).startTime
CarriedStartTime(entry, t) == entry.startTime

\* uploadProgress.set(documentId, { stage, progress, startTime: ... }): the
\* entry is replaced by a new object
Replaced(entry, rec, t) ==
    [stage |-> rec.stage, progress |-> rec.progress,
     startTime |-> CarriedStartTime(entry, t)]

\* Math.round(((pagesProcessed / totalPages) * 100) * 0.4)
AnalysisProgress(pagesProcessed, total) ==
    (80 * pagesProcessed + total) \div (2 * total)

\* the storage percentage without the cap at 95
StorageProgress_Uncapped(written, estimate) ==
    (81 * Max(estimate, 10) + 110 * written) \div (2 * Max(estimate, 10))

\* Math.min(Math.round(40 + 55 * (totalChunks / Math.max(estimate, 10))), 95)
StorageProgress(written, estimate) ==
    Min((81 * Max(estimate, 10) + 110 * written) \div (2 * Max(estimate, 10)),
        95)

\* the page number of the sub-document's own numbering
BatchLocalPageNumber(i, idx) == idx + 1

\* const absolutePageNumber = i + idx + 1
AbsolutePageNumber(i, idx) == i + idx + 1

\* the stage written by the storage updates is an earlier one
StoringRecord_Analyzing(written, estimate) ==
    ProgressRecord("analyzing", StorageProgress(written, estimate))

\* uploadProgress.set(documentId, { stage: 'storing', progress: ... })
StoringRecord(written, estimate) ==
    ProgressRecord("storing", StorageProgress(written, estimate))

\* the timer callback leaves the entry in the map
Evicted_Keep(entry) == entry

\* uploadProgress.delete(documentId)
Evicted(entry) == Absent

\* the status handler's response: 404 for a missing entry, else the record
StatusResponse(entry) ==
    IF entry = Absent THEN [status |-> 404, stage |-> "", progress |-> 0]
    ELSE [status |-> 200, stage |-> entry.stage, progress |-> entry.progress]

\* extractPageTexts(result): one entry per collected page, same pageNumber
ExtractPageTexts(pages) ==
    [k \in 1..Len(pages) |->
        [pageNumber |-> pages[k].pageNumber, origin |-> pages[k].origin,
         len |-> pages[k].kind.len, figures |-> pages[k].kind.figures]]

\* fragments the storage loop pushes for a page: none for a page without
\* text, else one per figure block and the text chunks up to the safety limit
PageChunks(page) ==
    IF page.len = 0 THEN 0
    ELSE page.figures
         + Min(ChunkCount(page.len, 1000, 150),
               Max(0, MAX_CHUNKS_PER_PAGE - page.figures))

\* the next page position (cursor, written) that still has fragments to write
RECURSIVE NextStorePage(_, _, _)
NextStorePage(pages, c, w) ==
    IF c > Len(pages) THEN <<c, 0>>
    ELSE IF w < PageChunks(pages[c]) THEN <<c, w>>
         ELSE NextStorePage(pages, c + 1, 0)

\* the batch is written only when the page is finished
WriteSize_WholePage(pending) == pending

\* fragments of the next bulk call when the page still has pending fragments
\* to push: the batch is flushed as soon as batch.length >= BATCH_SIZE, and
\* what is left of it at the end of the page
WriteSize(pending) == Min(BATCH_SIZE, pending)

\* the error is reported and the loop that made the call goes on
OnFailure_Continue(stage) == [status |-> 500, ipc |-> stage]

\* catch (error) { ... return res.status(500).json({ error: 'Upload failed' }) }
\* around the whole handler body: the handler ends where the call threw
OnFailure(stage) == [status |-> 500, ipc |-> "failed"]

\* the catch block records the failure in the progress map
ProgressAfterFailure_Failed(entry) ==
    [stage |-> "failed", progress |-> entry.progress,
     startTime |-> entry.startTime]

\* the catch block logs and answers; it has no uploadProgress.set, no
\* uploadProgress.delete and no setTimeout, so the entry stays as it is
ProgressAfterFailure(entry) == entry

IngestInit ==
    /\ GenIdle /\ CtxIdle /\ SclIdle /\ EnrIdle
    /\ uploadProgress = Absent
    /\ otherProgress = Absent /\ now = 0 /\ updates = {}
    /\ pdf \in Uploads
    /\ totalPages = 0 /\ batchStart = 0
    /\ allPages = <<>> /\ docPages = <<>>
    /\ estimatedTotalChunks = 0 /\ totalChunks = 0
    /\ pageCursor = 1 /\ pageWritten = 0
    /\ stored = <<>>
    /\ evictTimer = FALSE
    /\ pollResult = NoPoll
    /\ response = [status |-> 0, documentId |-> FALSE, chunksWritten |-> 0]
    /\ ipc = "received"

\* validation (400 on a missing field or a non-PDF file), then the first
\* progress record and the start of the blob upload
IngReceive ==
    /\ ipc = "received"
    /\ \E valid \in BOOLEAN :
          IF valid
          THEN /\ uploadProgress' = Created(ProgressRecord("uploading", 0), now)
               /\ updates' = updates \cup {ProgressRecord("uploading", 0)}
               /\ ipc' = "upload"
               /\ UNCHANGED response
          ELSE /\ ipc' = "rejected"
               /\ response' = [status |-> 400, documentId |-> FALSE,
                             chunksWritten |-> 0]
               /\ UNCHANGED <<uploadProgress, updates>>
    /\ UNCHANGED <<pdf, totalPages, batchStart, allPages, docPages,
                   estimatedTotalChunks, totalChunks, pageCursor, pageWritten,
                   stored, evictTimer, pollResult>>
    /\ UNCHANGED <<otherProgress, now>>
    /\ UNCHANGED <<genVars, ctxVars, sclVars, enrVars>>

\* blob uploaded and verified: stage analyzing, load the PDF, count its pages
IngUploaded ==
    /\ ipc = "upload"
    /\ uploadProgress' =
          Replaced(uploadProgress, ProgressRecord("analyzing", 0), now)
    /\ updates' = updates \cup {ProgressRecord("analyzing", 0)}
    /\ totalPages' = Len(pdf)
    /\ batchStart' = 0
    /\ allPages' = <<>>
    /\ ipc' = "analyze"
    /\ UNCHANGED <<pdf, docPages, estimatedTotalChunks, totalChunks,
                   pageCursor, pageWritten, stored, evictTimer, pollResult, response>>
    /\ UNCHANGED <<otherProgress, now>>
    /\ UNCHANGED <<genVars, ctxVars, sclVars, enrVars>>

\* one iteration of the analysis loop: the service returns one page record
\* per submitted page, or a result without pages
IngAnalyzeBatch ==
    /\ ipc = "analyze"
    /\ batchStart < totalPages
    /\ LET endPage == Min(batchStart + PAGES_PER_CHUNK, totalPages)
       IN  /\ \E got \in {0, endPage - batchStart} :
                 allPages' = allPages \o
                     [k \in 1..got |->
                         [pageNumber |-> AbsolutePageNumber(batchStart, k - 1),
                          origin |-> batchStart + k,
                          kind |-> pdf[batchStart + k]]]
           /\ \E rec \in {ProgressRecord("analyzing",
                                           AnalysisProgress(endPage, totalPages))} :
                 /\ uploadProgress' = Replaced(uploadProgress, rec, now)
                 /\ updates' = updates \cup {rec}
    /\ batchStart' = batchStart + PAGES_PER_CHUNK
    /\ UNCHANGED <<pdf, totalPages, docPages, estimatedTotalChunks,
                   totalChunks, pageCursor, pageWritten, stored, evictTimer,
                   pollResult, ipc, response>>
    /\ UNCHANGED <<otherProgress, now>>
    /\ UNCHANGED <<genVars, ctxVars, sclVars, enrVars>>

\* the loop is over: save the layout JSON, extract the page texts and call
\* enrichGraphDescriptions
IngSaveJson ==
    /\ ipc = "analyze"
    /\ ~(batchStart < totalPages)
    /\ docPages' = ExtractPageTexts(allPages)
    /\ ipc' = "enrich"
    /\ UNCHANGED <<uploadProgress, pdf, totalPages, batchStart, allPages,
                   estimatedTotalChunks, totalChunks, pageCursor, pageWritten,
                   stored, evictTimer, pollResult, response>>
    /\ UNCHANGED <<otherProgress, now, updates>>
    /\ UNCHANGED <<genVars, ctxVars, sclVars, enrVars>>

\* enrichment returned: stage chunking at 40, estimate the number of chunks
\* from the first page
IngEnriched ==
    /\ ipc = "enrich"
    /\ uploadProgress' =
          Replaced(uploadProgress, ProgressRecord("chunking", 40), now)
    /\ updates' = updates \cup {ProgressRecord("chunking", 40)}
    /\ totalChunks' = 0
    /\ estimatedTotalChunks' =
          IF Len(docPages) > 0 /\ docPages[1].len > 0
          THEN Max(ChunkCount(docPages[1].len, 1000, 150) * Len(docPages), 10)
          ELSE 100
    /\ pageCursor' = 1 /\ pageWritten' = 0
    /\ ipc' = "store"
    /\ UNCHANGED <<pdf, totalPages, batchStart, allPages, docPages, stored,
                   evictTimer, pollResult, response>>
    /\ UNCHANGED <<otherProgress, now>>
    /\ UNCHANGED <<genVars, ctxVars, sclVars, enrVars>>

\* fill the batch from the current page up to BATCH_SIZE fragments (or to the
\* end of the page), write it with one bulk call and update the record
IngWriteBatch ==
    /\ ipc = "store"
    /\ \E pos \in {NextStorePage(docPages, pageCursor, pageWritten)} :
          /\ pos[1] <= Len(docPages)
          /\ LET page == docPages[pos[1]]
                 n == WriteSize(PageChunks(page) - pos[2])
             IN  /\ stored' = Append(stored,
                        [pageNumber |-> page.pageNumber,
                         origin |-> page.origin,
                         first |-> pos[2] + 1, count |-> n])
                 /\ totalChunks' = totalChunks + n
                 /\ \E rec \in {StoringRecord(totalChunks + n,
                                                estimatedTotalChunks)} :
                        /\ uploadProgress' = Replaced(uploadProgress, rec, now)
                        /\ updates' = updates \cup {rec}
                 /\ pageCursor' = pos[1]
                 /\ pageWritten' = pos[2] + n
    /\ UNCHANGED <<pdf, totalPages, batchStart, allPages, docPages,
                   estimatedTotalChunks, evictTimer, pollResult, ipc, response>>
    /\ UNCHANGED <<otherProgress, now>>
    /\ UNCHANGED <<genVars, ctxVars, sclVars, enrVars>>

\* all pages written: stage complete at 100, arm the eviction timer, 201
IngComplete ==
    /\ ipc = "store"
    /\ NextStorePage(docPages, pageCursor, pageWritten)[1] > Len(docPages)
    /\ uploadProgress' =
          Replaced(uploadProgress, ProgressRecord("complete", 100), now)
    /\ updates' = updates \cup {ProgressRecord("complete", 100)}
    /\ evictTimer' = TRUE
    /\ response' = [status |-> 201, documentId |-> TRUE,
                    chunksWritten |-> totalChunks]
    /\ ipc' = "done"
    /\ UNCHANGED <<pdf, totalPages, batchStart, allPages, docPages,
                   estimatedTotalChunks, totalChunks, pageCursor, pageWritten,
                   stored, pollResult>>
    /\ UNCHANGED <<otherProgress, now>>
    /\ UNCHANGED <<genVars, ctxVars, sclVars, enrVars>>

\* an awaited call (blob upload, PDF load, analysis, JSON save, bulk write)
\* rejects: the catch block answers 500
IngFail ==
    /\ \/ ipc \in {"upload", "analyze"}
       \/ /\ ipc = "store"
          /\ NextStorePage(docPages, pageCursor, pageWritten)[1] <= Len(docPages)
    /\ response' = [status |-> OnFailure(ipc).status, documentId |-> FALSE,
                    chunksWritten |-> 0]
    /\ ipc' = OnFailure(ipc).ipc
    /\ uploadProgress' = ProgressAfterFailure(uploadProgress)
    /\ UNCHANGED <<pdf, totalPages, batchStart, allPages,
                   docPages, estimatedTotalChunks, totalChunks, pageCursor,
                   pageWritten, stored, evictTimer, pollResult>>
    /\ UNCHANGED <<otherProgress, now, updates>>
    /\ UNCHANGED <<genVars, ctxVars, sclVars, enrVars>>

\* setTimeout(() => uploadProgress.delete(documentId), 10000) fires
IngEvict ==
    /\ evictTimer
    /\ uploadProgress' = Evicted(uploadProgress)
    /\ evictTimer' = FALSE
    /\ UNCHANGED <<pdf, totalPages, batchStart, allPages, docPages,
                   estimatedTotalChunks, totalChunks, pageCursor, pageWritten,
                   stored, pollResult, ipc, response>>
    /\ UNCHANGED <<otherProgress, now, updates>>
    /\ UNCHANGED <<genVars, ctxVars, sclVars, enrVars>>

\* GET /api/documents/:documentId/status for this documentId
IngStatusPoll ==
    /\ pollResult' = StatusResponse(uploadProgress)
    /\ UNCHANGED <<uploadProgress, pdf, totalPages, batchStart, allPages,
                   docPages, estimatedTotalChunks, totalChunks, pageCursor,
                   pageWritten, stored, evictTimer, ipc, response>>
    /\ UNCHANGED <<otherProgress, now, updates>>
    /\ UNCHANGED <<genVars, ctxVars, sclVars, enrVars>>

IngestNext ==
    \/ IngReceive
    \/ IngUploaded
    \/ IngAnalyzeBatch
    \/ IngSaveJson
    \/ IngEnriched
    \/ IngWriteBatch
    \/ IngComplete
    \/ IngFail
    \/ IngEvict
    \/ IngStatusPoll

IngestSpec == IngestInit /\ [][IngestNext]_vars

\* the timer callback runs once its delay has passed
IngestFairSpec == IngestSpec /\ WF_vars(IngEvict)

(***************************************************************************)
(* ConcurrentSpec: the request of IngestSpec while time passes and another *)
(* request, with a documentId of its own, keeps its entry in the same map. *)
(***************************************************************************)
MaxConcPages == 1       \* pages of the upload
MaxClock     == 2       \* latest value of Date.now()

ConcurrentInit ==
    /\ IngestInit
    /\ Len(pdf) <= MaxConcPages

\* time passes between two steps
Tick ==
    /\ now < MaxClock
    /\ now' = now + 1
    /\ UNCHANGED <<uploadProgress, otherProgress, updates, pdf, totalPages,
                   batchStart, allPages, docPages, estimatedTotalChunks,
                   totalChunks, pageCursor, pageWritten, stored, evictTimer,
                   pollResult, response, ipc>>
    /\ UNCHANGED <<genVars, ctxVars, sclVars, enrVars>>

\* a step of the other request's handler or of its timer: it creates its
\* entry, replaces it, or deletes it after complete
OtherIngestion ==
    /\ \/ /\ otherProgress = Absent
          /\ otherProgress' = Created(ProgressRecord("uploading", 0), now)
       \/ /\ otherProgress # Absent
          /\ otherProgress.stage # "complete"
          /\ \E rec \in {ProgressRecord("analyzing", 20),
                         ProgressRecord("complete", 100)} :
                otherProgress' = Replaced(otherProgress, rec, now)
       \/ /\ otherProgress.stage = "complete"
          /\ otherProgress' = Evicted(otherProgress)
    /\ UNCHANGED <<uploadProgress, now, updates, pdf, totalPages,
                   batchStart, allPages, docPages, estimatedTotalChunks,
                   totalChunks, pageCursor, pageWritten, stored, evictTimer,
                   pollResult, response, ipc>>
    /\ UNCHANGED <<genVars, ctxVars, sclVars, enrVars>>

ConcurrentNext == IngestNext \/ Tick \/ OtherIngestion

ConcurrentSpec == ConcurrentInit /\ [][ConcurrentNext]_vars

(***************************************************************************)
(* PersistSpec: enrichGraphDescriptions followed by the storage loop of    *)
(* POST /api/documents, with the texts of the fragments it pushes.         *)
(***************************************************************************)
MaxPersistPages == 1    \* pages of the document

\* the pages of EnrichSpec, a page without lines, and a page whose lines
\* give amounts in thousands: "($'000)"
PersistInit ==
    /\ GenIdle /\ CtxIdle /\ SclIdle /\ IngIdle
    /\ LET kinds ==
               PageKinds \cup
               { [words |-> <<>>, visible |-> <<>>],
                 [words |-> <<"Supply", "Equilibrium", "$'000">>,
                  visible |-> <<"$'000">>] }
       IN  pageTexts \in
               UNION { {[p \in 1..n |-> MakePage(p, f[p][1], f[p][2])] :
                           f \in [1..n -> kinds \X (0..MaxFigures)]} :
                       n \in 0..MaxPersistPages }
    /\ pageIdx = 1 /\ figIndex = 0
    /\ enrichmentCount = 0
    /\ outcomes = <<>>
    /\ persisted = <<>>
    /\ epc = "loop"

\* Array.from(text.matchAll(/\[FIGURE[\s\S]*?\[END FIGURE \d+\]/gi)): from
\* position pos on, each match runs from the next "[FIGURE" to the first
\* "[END FIGURE d]" after it
RECURSIVE FigureBlocks(_, _)
FigureBlocks(text, pos) ==
    LET opens == {i \in pos..Len(text) : text[i].t = "figure"}
    IN  IF opens = {} THEN <<>>
        ELSE LET i == CHOOSE x \in opens : \A y \in opens : x <= y
                 ends == {j \in (i + 1)..Len(text) : text[j].t = "endfigure"}
             IN  IF ends = {} THEN <<>>
                 ELSE LET j == CHOOSE x \in ends : \A y \in ends : x <= y
                      IN  <<SubSeq(text, i, j)>> \o FigureBlocks(text, j + 1)

\* one iteration of the storage loop: a page without text is skipped, else
\* batch.push({ ..., sectionTitle: `Graph ${figIdx + 1}`, content: block })
\* for each figure block, then the text chunks of the page (sectionTitle:
\* null), as one entry holding the text chunkTextGenerator cuts them from
PersistPage ==
    /\ epc = "returned"
    /\ pageCursor <= Len(pageTexts)
    /\ LET page == pageTexts[pageCursor]
           blocks == FigureBlocks(page.text, 1)
           figures == [k \in 1..Len(blocks) |->
                          [pageNumber |-> page.pageNumber, sectionTitle |-> k,
                           content |-> blocks[k]]]
           texts == <<[pageNumber |-> page.pageNumber, sectionTitle |-> 0,
                       content |-> page.text]>>
       IN  persisted' = IF page.text = <<>> THEN persisted
                        ELSE persisted \o figures \o texts
    /\ pageCursor' = pageCursor + 1
    /\ UNCHANGED <<pageTexts, pageIdx, figIndex, enrichmentCount, outcomes, epc>>
    /\ UNCHANGED <<uploadProgress, otherProgress, now, updates, pdf,
                   totalPages, batchStart, allPages, docPages,
                   estimatedTotalChunks, totalChunks, pageWritten, stored,
                   evictTimer, pollResult, response, ipc>>
    /\ UNCHANGED <<genVars, ctxVars, sclVars>>

PersistNext == EnrichNext \/ PersistPage

PersistSpec == PersistInit /\ [][PersistNext]_vars

(***************************************************************************)
(* EagerSpec: chunkText of backend/src/chunkText.js, the eager chunker     *)
(* that collects its chunks in an array.  It runs on the variables of the  *)
(* generator; emitted is the array chunks.                                 *)
(***************************************************************************)
MaxEagerLen     == 6    \* text.length
MaxEagerSize    == 4    \* size argument
MaxEagerOverlap == 4    \* overlap argument
MaxEagerChunks  == 4    \* chunks pushed before the run is cut off

EagerInit ==
    /\ len \in 0..MaxEagerLen
    /\ size \in 1..MaxEagerSize
    /\ overlap \in 0..MaxEagerOverlap
    /\ start = 0
    /\ emitted = <<>>
    /\ gpc = "entry"
    /\ earlier = <<>>
    /\ CtxIdle /\ SclIdle /\ EnrIdle /\ IngIdle

\* if (!text) return [] ; const chunks = [] ; let start = 0
EagerEnter ==
    /\ gpc = "entry"
    /\ start' = 0
    /\ gpc' = IF len = 0 THEN "done" ELSE "loop"
    /\ UNCHANGED <<len, size, overlap, emitted, earlier>>
    /\ UNCHANGED notGen

\* one iteration of while (start < len): slice, push,
\* start = end - overlap ; if (start < 0) start = 0
EagerIterate ==
    /\ gpc = "loop"
    /\ start < len
    /\ Len(emitted) < MaxEagerChunks
    /\ LET end == Min(start + size, len)
       IN  /\ emitted' = Append(emitted, [from |-> start, to |-> end])
           /\ start' = Max(end - overlap, 0)
    /\ UNCHANGED <<len, size, overlap, gpc, earlier>>
    /\ UNCHANGED notGen

\* the loop condition fails: return chunks
EagerReturn ==
    /\ gpc = "loop"
    /\ ~(start < len)
    /\ gpc' = "done"
    /\ UNCHANGED <<len, size, overlap, start, emitted, earlier>>
    /\ UNCHANGED notGen

EagerNext == EagerEnter \/ EagerIterate \/ EagerReturn

EagerSpec == EagerInit /\ [][EagerNext]_vars

(***************************************************************************)
(* The fragments of one whole run of chunkTextGenerator from start st on,  *)
(* as a function of its arguments (Array.from over the generator).         *)
(***************************************************************************)
MaxPageLen == 2000      \* longest page text run with the ingestion's arguments

RECURSIVE FragmentsFrom(_, _, _, _)
FragmentsFrom(l, st, sz, ov) ==
    IF ~(st < l) THEN <<>>
    ELSE LET end == SliceEnd(st, sz, l)
             next == st + Step(sz, ov)
         IN  (IF end - st > 0 THEN <<[from |-> st, to |-> end]>> ELSE <<>>)
                 \o (IF CloseToEnd(l, next, sz) THEN <<>>
                     ELSE FragmentsFrom(l, next, sz, ov))


(***************************************************************************)
(* C1: for every text, size > 0 and overlap >= 0 the generator finishes    *)
(* after finitely many emissions (at most one per character), and the      *)
(* start offsets of successive fragments strictly increase by exactly      *)
(* max(1, size - min(overlap, size-1)); with overlap >= size that is 1.    *)
(***************************************************************************)
C1_ExpectedStep == Max(1, size - Min(overlap, size - 1))

C1_StartsAdvance ==
    /\ Len(emitted) <= len
    /\ (emitted # <<>> => emitted[1].from = 0)
    /\ \A i \in 1..(Len(emitted) - 1) :
          /\ emitted[i + 1].from > emitted[i].from
          /\ emitted[i + 1].from = emitted[i].from + C1_ExpectedStep
          /\ (overlap >= size => emitted[i + 1].from = emitted[i].from + 1)

C1_StepAndTermination == []C1_StartsAdvance /\ <>(gpc = "done")

C1_Witness ==
    /\ gpc = "done"
    /\ overlap >= size
    /\ Len(emitted) >= 3
    /\ emitted[3].from = 2

(***************************************************************************)
(* Helpers of the statements below                                         *)
(***************************************************************************)
Returned == cpc = "returned"

\* the scores buildContextSmart computed for the recorded call
CallScores == ScoredChunks(chunks, Keywords(message), IsGraphQuery(message))

Markers == {i \in 1..Len(chunks) : HasMarker(chunks[i].content)}
NonMarkers == {i \in 1..Len(chunks) : ~HasMarker(chunks[i].content)}

PosIn(q, x) == CHOOSE k \in 1..Len(q) : q[k] = x

NonIncreasing(q, sc) ==
    \A k \in 1..(Len(q) - 1) : ~ScoreLess(sc[q[k]], sc[q[k + 1]])

Distinct(q) == \A a, b \in 1..Len(q) : a # b => q[a] # q[b]

Range(q) == {q[k] : k \in 1..Len(q)}

\* characters the returned value contributes to the prompt: the joined
\* string, or the coercion of an array of objects
\* ("[object Object]" per element, separated by commas)
ContextChars(ret) ==
    IF ret.kind = "string" THEN ret.length
    ELSE IF Len(ret.items) = 0 THEN 0
         ELSE 15 * Len(ret.items) + (Len(ret.items) - 1)

(***************************************************************************)
(* C2: context assembly is skip-and-stop.  The retained fragments are a    *)
(* prefix of the ranked selection with the empty-content fragments left    *)
(* out; the first fragment after that prefix is one whose block plus the   *)
(* 2-character separator exceeds the remaining budget, and nothing after   *)
(* it is retained even if it would fit.                                    *)
(***************************************************************************)
C2_NonEmptyTop == SelectSeq(topChunks, LAMBDA i : chunks[i].content # <<>>)

C2_Used(n) ==
    SumSeq([k \in 1..n |-> BlockLen(chunks[C2_NonEmptyTop[k]]) + 2])

C2_SkipAndStop ==
    (Returned /\ context.kind = "string") =>
        LET n == Len(context.items)
        IN  /\ n <= Len(C2_NonEmptyTop)
            /\ context.items = SubSeq(C2_NonEmptyTop, 1, n)
            /\ n < Len(C2_NonEmptyTop) =>
                  BlockLen(chunks[C2_NonEmptyTop[n + 1]]) + 2
                      > maxChars - C2_Used(n)

\* a fragment was dropped although a later, smaller one would still fit
C2_Witness ==
    /\ Returned /\ context.kind = "string"
    /\ Len(context.items) >= 1
    /\ Len(context.items) + 2 <= Len(C2_NonEmptyTop)
    /\ \E k \in (Len(context.items) + 2)..Len(C2_NonEmptyTop) :
          BlockLen(chunks[C2_NonEmptyTop[k]]) + 2
              <= maxChars - C2_Used(Len(context.items))

(***************************************************************************)
(* C3: on every return path the context buildContextSmart returns has at   *)
(* most maxChars characters.                                               *)
(***************************************************************************)
C3_ContextWithinBudget ==
    Returned => ContextChars(context) <= maxChars

(***************************************************************************)
(* C4: with a page hint h and at least one fragment on a page of           *)
(* {h-1, h, h+1} that is >= 1, the candidate set is exactly the fragments  *)
(* of those pages, in their original order.                                *)
(***************************************************************************)
ChatPastFilter == cpc \in {"replied", "failed", "crashed"}

C4_Window(h) == {p \in {h - 1, h, h + 1} : p >= 1}

C4_InWindow(h) == SelectSeq(allChunks, LAMBDA c : c.pageNumber \in C4_Window(h))

\* as claimed: for every hint the request carries
C4_WindowExact_AnyHint ==
    (ChatPastFilter /\ pageHint # NoHint /\ C4_InWindow(pageHint) # <<>>) =>
        chunks = C4_InWindow(pageHint)

\* amended: for every hint other than 0
C4_WindowExact ==
    (ChatPastFilter /\ pageHint # NoHint /\ pageHint # 0
        /\ C4_InWindow(pageHint) # <<>>) =>
        chunks = C4_InWindow(pageHint)

\* hint 1 over pages 1, 2, 3 keeps pages 1 and 2 only
C4_Witness ==
    /\ ChatPastFilter
    /\ pageHint = 1
    /\ {allChunks[i].pageNumber : i \in 1..Len(allChunks)} = {1, 2, 3}
    /\ {chunks[i].pageNumber : i \in 1..Len(chunks)} = {1, 2}
    /\ chunks = SubSeq(allChunks, 1, Len(chunks))

(***************************************************************************)
(* C5: the candidate filter is fail-open.  For a non-empty pool the        *)
(* candidate set is never empty; it is the whole pool when no fragment     *)
(* lies in the hinted window and when the request carries no hint.         *)
(***************************************************************************)
C5_FailOpen ==
    (ChatPastFilter /\ Len(allChunks) > 0) =>
        /\ Len(chunks) > 0
        /\ (pageHint # NoHint /\ C4_InWindow(pageHint) = <<>>) =>
              chunks = allChunks
        /\ (pageNumber = NoHint /\ message.pageRef = NoHint) =>
              (pageHint = NoHint /\ chunks = allChunks)

\* a hint beyond the last page: nothing in the window, whole pool kept
C5_Witness ==
    /\ cpc = "replied"
    /\ pageHint = MaxHint
    /\ Len(allChunks) >= 2
    /\ C4_InWindow(pageHint) = <<>>
    /\ chunks = allChunks

(***************************************************************************)
(* C6: for a graph-intent question over a pool with m >= 1 marker-bearing  *)
(* and k other fragments, the selection is the min(5, m) highest-scoring   *)
(* marker-bearing fragments in non-increasing score order followed by the  *)
(* min(3, k) highest-scoring other fragments in non-increasing score       *)
(* order.                                                                  *)
(***************************************************************************)
C6_GraphCase == Returned /\ IsGraphQuery(message) /\ Markers # {}

C6_TopOf(q, S, n, sc) ==
    /\ Len(q) = Min(n, Cardinality(S))
    /\ Distinct(q)
    /\ Range(q) \subseteq S
    /\ NonIncreasing(q, sc)
    /\ \A u \in S \ Range(q) : \A t \in Range(q) : ~ScoreLess(sc[t], sc[u])

C6_GraphSelection ==
    C6_GraphCase =>
        \A sc \in {CallScores} :
            LET g == Min(5, Cardinality(Markers))
            IN  /\ Len(topChunks) = g + Min(3, Cardinality(NonMarkers))
                /\ C6_TopOf(SubSeq(topChunks, 1, g), Markers, 5, sc)
                /\ C6_TopOf(SubSeq(topChunks, g + 1, Len(topChunks)),
                            NonMarkers, 3, sc)

\* more than 5 marker-bearing and more than 3 other fragments, and a
\* marker-bearing fragment left out that scores lower than a selected one
C6_Witness ==
    /\ C6_GraphCase
    /\ Cardinality(Markers) > 5
    /\ Cardinality(NonMarkers) > 3
    /\ \A sc \in {CallScores} :
          \E u \in Markers \ Range(topChunks) :
             \E t \in Markers \cap Range(topChunks) : ScoreLess(sc[u], sc[t])

(***************************************************************************)
(* C7: under graph intent the score of every marker-bearing fragment is    *)
(* strictly greater than the score of every fragment without a marker,     *)
(* whatever the keywords and however often they occur.                     *)
(***************************************************************************)
C7_BoostDominates_Always ==
    (Returned /\ IsGraphQuery(message)) =>
        \A sc \in {CallScores} :
            \A i \in Markers : \A j \in NonMarkers : ScoreLess(sc[j], sc[i])

\* numerators of the tf-idf sums of the recorded call
C7_TfIdf ==
    AsArray([i \in 1..Len(chunks) |-> TfIdfNum(chunks, i, Keywords(message))])

\* tf-idf sum of fragment i is below 10.0
C7_TfIdfBelowBoost(tf, i) == tf[i] < BoostMicro * WordCount(chunks[i].content)

\* amended: the score of a marker-bearing fragment is its tf-idf sum plus
\* 10.0, and it is strictly greater than the score of every fragment without
\* a marker whose tf-idf sum is below 10.0
C7_BoostDominates ==
    (Returned /\ IsGraphQuery(message)) =>
        \A sc \in {CallScores} : \A tf \in {C7_TfIdf} :
            \A i \in Markers :
                /\ sc[i].den = WordCount(chunks[i].content)
                /\ sc[i].num = tf[i] + BoostMicro * sc[i].den
                /\ \A j \in NonMarkers :
                      C7_TfIdfBelowBoost(tf, j) => ScoreLess(sc[j], sc[i])

\* a fragment without marker has the larger tf-idf sum, below 10.0, and the
\* marker-bearing fragment still scores higher
C7_Witness ==
    /\ Returned /\ IsGraphQuery(message)
    /\ \A sc \in {CallScores} : \A tf \in {C7_TfIdf} :
          \E i \in Markers : \E j \in NonMarkers :
             /\ C7_TfIdfBelowBoost(tf, j)
             /\ tf[j] * WordCount(chunks[i].content)
                  > tf[i] * WordCount(chunks[j].content)
             /\ ScoreLess(sc[j], sc[i])

(***************************************************************************)
(* C8: for a graph-intent question with a page hint, among marker-bearing  *)
(* fragments of equal score those on the hinted page are ranked, and       *)
(* selected into the top 5, before those of other pages.                   *)
(***************************************************************************)
C8_HintedPageFirstAmongTies ==
    (C6_GraphCase /\ Truthy(pageHint)) =>
        \A sc \in {CallScores} :
            \A i, j \in Markers :
                (/\ chunks[i].pageNumber = pageHint
                 /\ chunks[j].pageNumber # pageHint
                 /\ ScoreEq(sc[i], sc[j])
                 /\ j \in Range(topChunks)) =>
                    /\ i \in Range(topChunks)
                    /\ PosIn(topChunks, i) < PosIn(topChunks, j)

(***************************************************************************)
(* C9: for a question without graph intent and at least one fragment       *)
(* scoring above 0, the selection has at most 3 fragments, each with a     *)
(* score above 0, in non-increasing score order, and no fragment left out  *)
(* scores strictly higher than a selected one.                             *)
(***************************************************************************)
C9_RegularCase(sc) ==
    /\ Returned /\ ~IsGraphQuery(message)
    /\ Keywords(message) # <<>>
    /\ \E i \in 1..Len(chunks) : ScorePositive(sc[i])

C9_RegularSelection ==
    \A sc \in {CallScores} :
        C9_RegularCase(sc) =>
            /\ Len(topChunks) >= 1
            /\ Len(topChunks) <= 3
            /\ Distinct(topChunks)
            /\ \A t \in Range(topChunks) : ScorePositive(sc[t])
            /\ NonIncreasing(topChunks, sc)
            /\ \A u \in (1..Len(chunks)) \ Range(topChunks) :
                  \A t \in Range(topChunks) : ~ScoreLess(sc[t], sc[u])

\* four fragments score above 0, three are selected, and the one left out
\* scores lower than a selected one
C9_Witness ==
    \A sc \in {CallScores} :
        /\ C9_RegularCase(sc)
        /\ Len(topChunks) = 3
        /\ \E u \in (1..Len(chunks)) \ Range(topChunks) :
              /\ ScorePositive(sc[u])
              /\ ScoreLess(sc[u], sc[topChunks[3]])

(***************************************************************************)
(* C10: when no candidate scores above 0 (also when the question has no    *)
(* alphabetic run of 4 letters) buildContextSmart returns a formatted      *)
(* string of "[Page n] content" blocks for exactly one representative      *)
(* fragment per page, the longest one, pages ascending.                    *)
(***************************************************************************)
C10_NoneAboveZero ==
    /\ Returned /\ Len(chunks) > 0
    /\ \/ Keywords(message) = <<>>
       \/ \A sc \in {CallScores} : \A i \in 1..Len(chunks) : ~ScorePositive(sc[i])

C10_IsRepresentative(i) ==
    \A j \in 1..Len(chunks) :
        chunks[j].pageNumber = chunks[i].pageNumber =>
            ContentLen(chunks[j].content) <= ContentLen(chunks[i].content)

C10_FallbackIsFormattedString ==
    C10_NoneAboveZero =>
        /\ context.kind = "string"
        /\ Len(context.items)
              = Cardinality({chunks[i].pageNumber : i \in 1..Len(chunks)})
        /\ \A k \in 1..Len(context.items) : C10_IsRepresentative(context.items[k])
        /\ \A k \in 1..(Len(context.items) - 1) :
              chunks[context.items[k]].pageNumber
                  < chunks[context.items[k + 1]].pageNumber

(***************************************************************************)
(* C11: when the candidate pool holds at least one fragment with non-empty *)
(* content, the context buildContextSmart returns for a question without   *)
(* graph intent is never empty (neither the empty string nor an empty      *)
(* list), whatever the fragment lengths and the scores.                    *)
(***************************************************************************)
C11_SomeContent == \E i \in 1..Len(chunks) : chunks[i].content # <<>>

C11_ContextNeverEmpty ==
    (Returned /\ ~IsGraphQuery(message) /\ C11_SomeContent) =>
        IF context.kind = "string" THEN context.length > 0
        ELSE Len(context.items) > 0

(***************************************************************************)
(* C12: classifyGraphType returns the template whose number of keywords    *)
(* occurring (case-insensitively) in the combined text is maximal over the *)
(* catalogue; among templates that tie for the maximum it returns the one  *)
(* that comes first in catalogue order; when every template scores 0 the   *)
(* result is null.                                                         *)
(***************************************************************************)
C12_Classified == spc \in {"awaiting", "returned", "thrown"}

C12_Scores ==
    LET combined == AsArray(TextWords(surroundingText)
                            \o LowerAll(graphMetadata.extractedText))
    IN  AsArray([k \in 1..Len(GRAPH_TEMPLATES) |->
                    KeywordHits(GRAPH_TEMPLATES[k].template, combined)])

C12_MaxFirstOrNone ==
    C12_Classified =>
        \A sc \in {C12_Scores} :
            IF \A k \in 1..Len(sc) : sc[k] = 0
            THEN classification = NoMatch
            ELSE /\ classification.index \in 1..Len(sc)
                 /\ classification.matchScore = sc[classification.index]
                 /\ \A k \in 1..Len(sc) : sc[k] <= classification.matchScore
                 /\ \A k \in 1..(classification.index - 1) :
                       sc[k] < classification.matchScore

\* two templates tie for the maximum and the earlier one is returned
C12_Witness ==
    /\ C12_Classified
    /\ classification.index # 0
    /\ \E k \in (classification.index + 1)..Len(GRAPH_TEMPLATES) :
          C12_Scores[k] = classification.matchScore

(***************************************************************************)
(* C13: a call of scaffoldGraphPrompt whose classification has matchScore  *)
(* >= 2 makes no inference call and returns the block rendered from the    *)
(* matched template (its axes, its curves in catalogue order, its          *)
(* insight); a call whose classification is null or has matchScore < 2     *)
(* makes exactly one inference call; the returned text always starts with  *)
(* [GRAPH STRUCTURE] and ends with [END GRAPH STRUCTURE].                  *)
(***************************************************************************)
C13_LinesOf(label) == SelectSeq(scaffolded.lines, LAMBDA x : x.l = label)

C13_FromTemplate(template) ==
    /\ scaffolded.kind = "template"
    /\ C13_LinesOf("- X-axis:") = <<Line("- X-axis:", <<template.axes.x>>)>>
    /\ C13_LinesOf("- Y-axis:") = <<Line("- Y-axis:", <<template.axes.y>>)>>
    /\ C13_LinesOf("**Key Insight:**")
           = <<Line("**Key Insight:**", <<template.insight>>)>>
    /\ LET cs == C13_LinesOf("- **Curve")
       IN  /\ Len(cs) = Len(template.curves)
           /\ \A k \in 1..Len(cs) :
                 /\ cs[k].n = k
                 /\ cs[k].v[1] = template.curves[k].name

C13_TemplateOrOneCall ==
    /\ inferenceCalls <= 1
    /\ spc = "awaiting" => inferenceCalls = 1
    /\ spc = "returned" =>
          /\ IF classification.index # 0 /\ classification.matchScore >= 2
             THEN /\ inferenceCalls = 0
                  /\ C13_FromTemplate(
                         GRAPH_TEMPLATES[classification.index].template)
             ELSE /\ inferenceCalls = 1
                  /\ scaffolded.kind \in {"inferred", "stub"}
          /\ Len(scaffolded.lines) >= 2
          /\ scaffolded.lines[1].l = "[GRAPH STRUCTURE]"
          /\ scaffolded.lines[Len(scaffolded.lines)].l = "[END GRAPH STRUCTURE]"

\* a template with two curves was rendered without an inference call
C13_Witness ==
    /\ spc = "returned"
    /\ classification.matchScore >= 2
    /\ inferenceCalls = 0
    /\ Len(C13_LinesOf("- **Curve")) = 2

(***************************************************************************)
(* C14: a failed inference call is local to its figure.  The figure gets   *)
(* the stub block in front of its end marker, no exception leaves          *)
(* scaffoldGraphPrompt, the figures and pages after it are still           *)
(* scaffolded, and enrichGraphDescriptions returns with every figure of    *)
(* every page interpreted.                                                 *)
(***************************************************************************)
C14_Page(p) == pageTexts[CHOOSE i \in 1..Len(pageTexts) : pageTexts[i].pageNumber = p]

\* the token in front of the end marker of figure n of the page
C14_BeforeEnd(page, n) ==
    LET i == CHOOSE x \in 1..Len(page.text) : IsEndMarker(page.text[x], n)
    IN  page.text[i - 1]

\* every figure of every page, in processing order
C14_AllFigures ==
    LET RECURSIVE From(_)
        From(p) == IF p > Len(pageTexts) THEN <<>>
                   ELSE [k \in 1..Len(pageTexts[p].figureMetadata) |->
                            [pageNumber |-> pageTexts[p].pageNumber, figure |-> k]]
                        \o From(p + 1)
    IN  From(1)

C14_FailureIsLocal ==
    /\ spc # "thrown"
    /\ \A k \in 1..Len(outcomes) :
          /\ k <= Len(C14_AllFigures)
          /\ outcomes[k].pageNumber = C14_AllFigures[k].pageNumber
          /\ outcomes[k].figure = C14_AllFigures[k].figure
          /\ LET tok == C14_BeforeEnd(C14_Page(outcomes[k].pageNumber),
                                      outcomes[k].figure)
             IN  /\ tok.t = "block"
                 /\ outcomes[k].failed <=> tok.block = StubBlock
    /\ epc = "returned" =>
          /\ Len(outcomes) = Len(C14_AllFigures)
          /\ enrichmentCount = Len(C14_AllFigures)

\* the call failed for the first figure of the first page; a later figure of
\* that page and a figure of the next page were interpreted all the same
C14_Witness ==
    /\ epc = "returned"
    /\ Len(outcomes) >= 3
    /\ outcomes[1].failed
    /\ ~outcomes[2].failed /\ outcomes[2].pageNumber = outcomes[1].pageNumber
    /\ outcomes[Len(outcomes)].pageNumber > outcomes[1].pageNumber

(***************************************************************************)
(* C15: the stages written to an ingestion's progress record only move     *)
(* forward in the order uploading, analyzing, chunking, storing, complete: *)
(* the record is created in stage uploading, no update sets an earlier     *)
(* stage than the current one, and once the stage is complete no update    *)
(* changes it.                                                             *)
(***************************************************************************)
C15_StageRank(stage) ==
    CASE stage = "uploading" -> 1
      [] stage = "analyzing" -> 2
      [] stage = "chunking"  -> 3
      [] stage = "storing"   -> 4
      [] stage = "complete"  -> 5

C15_ForwardOnly ==
    [][ /\ (uploadProgress = Absent /\ uploadProgress' # Absent)
            => uploadProgress'.stage = "uploading"
        /\ (uploadProgress # Absent /\ uploadProgress' # Absent)
            => /\ C15_StageRank(uploadProgress'.stage)
                      >= C15_StageRank(uploadProgress.stage)
               /\ uploadProgress.stage = "complete"
                      => uploadProgress'.stage = "complete" ]_vars

\* an ingestion that wrote two batches has reached complete
C15_Witness ==
    /\ uploadProgress # Absent
    /\ uploadProgress.stage = "complete"
    /\ Len(stored) >= 2

(***************************************************************************)
(* C16: the percentage of the progress record always lies in the range of  *)
(* its stage (uploading 0, analyzing 0..40, chunking and storing 40..95,   *)
(* complete 100) and no update lowers it, whatever the number of pages,    *)
(* the number of chunks written and the chunk estimate.                    *)
(***************************************************************************)
C16_InRange ==
    uploadProgress # Absent =>
        CASE uploadProgress.stage = "uploading" -> uploadProgress.progress = 0
          [] uploadProgress.stage = "analyzing" ->
                uploadProgress.progress \in 0..40
          [] uploadProgress.stage \in {"chunking", "storing"} ->
                uploadProgress.progress \in 40..95
          [] uploadProgress.stage = "complete" -> uploadProgress.progress = 100
          [] OTHER -> FALSE

C16_RangeAndMonotone ==
    /\ []C16_InRange
    /\ [][(uploadProgress # Absent /\ uploadProgress' # Absent)
             => uploadProgress'.progress >= uploadProgress.progress]_vars

\* more chunks written than estimated: the percentage stays at the cap
C16_Witness ==
    /\ uploadProgress # Absent
    /\ uploadProgress.stage = "storing"
    /\ uploadProgress.progress = 95
    /\ totalChunks > Max(estimatedTotalChunks, 10)

(***************************************************************************)
(* C17: a progress record that has reached stage complete is eventually    *)
(* removed from the map by the retention timer; a status poll made while   *)
(* the entry is missing answers 404; and a record is only ever removed     *)
(* when its stage is complete.                                             *)
(***************************************************************************)
C17_IsComplete == uploadProgress # Absent /\ uploadProgress.stage = "complete"

C17_EvictedAfterComplete ==
    /\ C17_IsComplete ~> (uploadProgress = Absent)
    /\ [][(uploadProgress # Absent /\ uploadProgress' = Absent)
             => uploadProgress.stage = "complete"]_vars
    /\ [][(uploadProgress = Absent /\ uploadProgress' = Absent
             /\ pollResult' # pollResult)
             => pollResult'.status = 404]_vars

\* the completed record is gone and the poll that saw it complete before
\* now gets the absent-entry answer
C17_Witness ==
    /\ ipc = "done"
    /\ uploadProgress = Absent
    /\ ~evictTimer
    /\ pollResult.status = 404

(***************************************************************************)
(* C18: when every analysis batch of 2 pages returns one page record per   *)
(* submitted page, the collected pages carry the numbers 1..P in ascending *)
(* order, each once, and never the numbers of the batch they came in; the  *)
(* pageNumber of every collected page and of every fragment written to the *)
(* store is the position of its page in the uploaded document.             *)
(***************************************************************************)
C18_AllReturned == Len(allPages) = Min(batchStart, totalPages)

C18_AbsolutePageNumbers ==
    /\ C18_AllReturned =>
          \A k \in 1..Len(allPages) : allPages[k].pageNumber = k
    /\ \A k \in 1..Len(allPages) : allPages[k].pageNumber = allPages[k].origin
    /\ \A k \in 1..Len(stored) : stored[k].pageNumber = stored[k].origin

\* three pages came in two batches and a fragment of the third page, the
\* first of its batch, is stored under page 3
C18_Witness ==
    /\ totalPages = 3
    /\ Len(allPages) = 3
    /\ \E k \in 1..Len(stored) : stored[k].pageNumber = 3

(***************************************************************************)
(* C19: the k-th fragment (k = 0, 1, ...) chunkTextGenerator yields is     *)
(* text[k*step : min(k*step + size, len)] with step = max(1, size -        *)
(* min(overlap, size-1)), so its length is between 1 and size; a non-empty *)
(* text yields at least one fragment and an empty text yields none.        *)
(***************************************************************************)
C19_Step == Max(1, size - Min(overlap, size - 1))

C19_FragmentBounds ==
    /\ \A k \in 0..(Len(emitted) - 1) :
          /\ emitted[k + 1].from = k * C19_Step
          /\ emitted[k + 1].to = Min(k * C19_Step + size, len)
          /\ emitted[k + 1].to - emitted[k + 1].from \in 1..size
    /\ (gpc = "done" /\ len > 0) => Len(emitted) >= 1
    /\ len = 0 => emitted = <<>>

\* the last of several fragments was cut at the end of the text
C19_Witness ==
    /\ gpc = "done"
    /\ Len(emitted) >= 2
    /\ emitted[Len(emitted)].to = len
    /\ emitted[Len(emitted)].to - emitted[Len(emitted)].from < size

(***************************************************************************)
(* C20: the chunker is restartable.  An invocation with the same text,     *)
(* size and overlap yields the same fragments in the same order as every   *)
(* earlier invocation did, however far the earlier sequence was consumed:  *)
(* of two such sequences the shorter is a prefix of the other, and two     *)
(* completed ones are equal.                                               *)
(***************************************************************************)
C20_SameSequence ==
    \A r \in 1..Len(earlier) :
        /\ \A k \in 1..Min(Len(earlier[r].frags), Len(emitted)) :
              earlier[r].frags[k] = emitted[k]
        /\ earlier[r].done => Len(emitted) <= Len(earlier[r].frags)
        /\ gpc = "done" => Len(earlier[r].frags) <= Len(emitted)
        /\ (earlier[r].done /\ gpc = "done") => earlier[r].frags = emitted

\* a sequence left after its first fragment, one consumed to its end, and a
\* third invocation that has completed as well
C20_Witness ==
    /\ Len(earlier) = 2
    /\ ~earlier[1].done /\ Len(earlier[1].frags) = 1
    /\ earlier[2].done /\ Len(earlier[2].frags) >= 2
    /\ gpc = "done"

(***************************************************************************)
(* C21: after chunkTextGenerator has finished, the positions of the text   *)
(* that lie in no emitted fragment form a suffix of the text (possibly     *)
(* empty) whose length is less than size * 0.1; every position before that *)
(* suffix lies in some fragment.                                           *)
(***************************************************************************)
C21_Covered ==
    {p \in 0..(len - 1) :
        \E k \in 1..Len(emitted) : emitted[k].from <= p /\ p < emitted[k].to}

C21_DroppedTailIsShortSuffix ==
    gpc = "done" =>
        \E c \in 0..len :
            /\ C21_Covered = 0..(c - 1)
            /\ 10 * (len - c) < size

\* a finished run that emitted a fragment and left a non-empty tail out
C21_Witness ==
    /\ gpc = "done"
    /\ Len(emitted) >= 1
    /\ C21_Covered # 0..(len - 1)

(***************************************************************************)
(* C22: the ranker treats the keywords of the question as a de-duplicated  *)
(* set.  Writing a word of at least 4 letters of the question a second     *)
(* time changes neither the score of any fragment nor the selection and    *)
(* the context buildContextSmart returns.                                  *)
(***************************************************************************)
\* the question with its k-th word written twice
C22_Repeat(msg, k) ==
    [msg EXCEPT !.words = SubSeq(msg.words, 1, k) \o <<msg.words[k]>>
                          \o SubSeq(msg.words, k + 1, Len(msg.words))]

C22_SameScores(msg, again) ==
    LET sc == ScoredChunks(chunks, Keywords(msg), IsGraphQuery(msg))
        sa == ScoredChunks(chunks, Keywords(again), IsGraphQuery(again))
    IN  \A i \in 1..Len(chunks) : ScoreEq(sc[i], sa[i])

C22_KeywordsAreASet ==
    cpc = "returned" =>
        \A k \in 1..Len(message.words) :
            QWordLen(message.words[k]) >= 4 =>
                LET again == C22_Repeat(message, k)
                IN  /\ C22_SameScores(message, again)
                    /\ BuildContextSmart(chunks, again, maxChars, pageHint)
                          = [top |-> topChunks, ret |-> context]

\* the selection alone, whatever happens to the scores
C22_SameSelection ==
    cpc = "returned" =>
        \A k \in 1..Len(message.words) :
            QWordLen(message.words[k]) >= 4 =>
                BuildContextSmart(chunks, C22_Repeat(message, k), maxChars,
                                  pageHint).top = topChunks

(***************************************************************************)
(* C23: enrichGraphDescriptions processes the figures one after the other, *)
(* in page order and, within a page, in figure order.  At every moment at  *)
(* most one inference request is outstanding, and scaffoldGraphPrompt is   *)
(* called for the next figure only after the call for the previous figure  *)
(* has returned or failed.                                                 *)
(***************************************************************************)
\* figure (p, f) comes before figure (q, g)
C23_Before(p, f, q, g) == p < q \/ (p = q /\ f < g)

C23_InOrder ==
    /\ inflight <= 1
    /\ \A i, j \in 1..Len(outcomes) :
          i < j => C23_Before(outcomes[i].pageNumber, outcomes[i].figure,
                              outcomes[j].pageNumber, outcomes[j].figure)
    /\ epc = "calling" =>
          \A i \in 1..Len(outcomes) :
              C23_Before(outcomes[i].pageNumber, outcomes[i].figure,
                         pageTexts[pageIdx].pageNumber, figIndex + 1)

\* a step that calls scaffoldGraphPrompt, or that sends an inference request
C23_Issues == (epc = "loop" /\ epc' = "calling") \/ inflight' > inflight

C23_OneAtATime ==
    /\ []C23_InOrder
    /\ [][C23_Issues => inflight = 0]_vars

\* the second figure's inference request is outstanding after the first
\* figure's request has failed, and a third figure is still to come
C23_Witness ==
    /\ epc = "calling" /\ spc = "awaiting" /\ inflight = 1
    /\ Len(outcomes) >= 1
    /\ outcomes[1].failed
    /\ NextFigure(pageTexts, pageIdx, figIndex + 1)[1] <= Len(pageTexts)

(***************************************************************************)
(* C24: during storage the bulk writes are issued one at a time and every  *)
(* write carries at least 1 and at most 50 fragments.  When the ingestion  *)
(* succeeds, every fragment produced for a page (dedicated figure          *)
(* fragments and text chunks) has been written exactly once, none lost or  *)
(* duplicated between batches, and chunksWritten in the response is the    *)
(* number of fragments written.                                            *)
(***************************************************************************)
\* the writes of the page taken from position origin of the upload
C24_WritesOf(origin) == SelectSeq(stored, LAMBDA w : w.origin = origin)

C24_Total(writes) == SumSeq([k \in 1..Len(writes) |-> writes[k].count])

\* the writes of one page carry consecutive ranges of its fragments from 1 on
C24_Consecutive(writes) ==
    \A k \in 1..Len(writes) :
        writes[k].first = 1 + C24_Total(SubSeq(writes, 1, k - 1))

C24_Batches ==
    /\ \A k \in 1..Len(stored) : stored[k].count \in 1..50
    /\ \A k \in 1..Len(docPages) :
          C24_Consecutive(C24_WritesOf(docPages[k].origin))
    /\ response.status = 201 =>
          /\ \A k \in 1..Len(docPages) :
                C24_Total(C24_WritesOf(docPages[k].origin))
                    = PageChunks(docPages[k])
          /\ \A w \in 1..Len(stored) :
                \E k \in 1..Len(docPages) : docPages[k].origin = stored[w].origin
          /\ response.chunksWritten = C24_Total(stored)

C24_BatchedSequentialWrites ==
    /\ []C24_Batches
    /\ [][Len(stored') <= Len(stored) + 1]_vars

\* a successful ingestion with a page written in a full batch and a rest, a
\* page with a figure fragment and a page without text
C24_Witness ==
    /\ response.status = 201
    /\ \E i, j \in 1..Len(stored) :
          /\ i < j
          /\ stored[i].origin = stored[j].origin
          /\ stored[i].count = 50
    /\ \E k \in 1..Len(docPages) : docPages[k].figures > 0
    /\ \E k \in 1..Len(docPages) : docPages[k].len = 0

(***************************************************************************)
(* C25: when a layout-analysis call or a storage write fails, the whole    *)
(* ingestion aborts.  The failed call is not retried, no later analysis    *)
(* call or storage write is issued for the document, the progress record   *)
(* never reaches complete, the client receives an error response without a *)
(* documentId, and the batches committed before the failure stay in the    *)
(* store.                                                                  *)
(***************************************************************************)
\* the failure has been reported to the client
C25_Aborted == response.status = 500

C25_WitnessAnalysis ==
    /\ C25_Aborted
    /\ allPages # <<>>
    /\ batchStart < totalPages

(***************************************************************************)
(* C26: every update of the progress map replaces the whole entry of the   *)
(* document id by a new record.  From the start of an ingestion until the  *)
(* eviction the entry keeps the same startTime across all updates, and a   *)
(* status poll interleaved anywhere between the steps of this or of        *)
(* another concurrent ingestion reads a record whose stage and percentage  *)
(* were written together by one update.                                    *)
(***************************************************************************)
C26_Pair(entry) == [stage |-> entry.stage, progress |-> entry.progress]

C26_WrittenTogether ==
    /\ uploadProgress # Absent => C26_Pair(uploadProgress) \in updates
    /\ pollResult.status = 200 => C26_Pair(pollResult) \in updates

C26_AtomicReplacement ==
    /\ []C26_WrittenTogether
    /\ [][(uploadProgress # Absent /\ uploadProgress' # Absent)
             => uploadProgress'.startTime = uploadProgress.startTime]_vars
    /\ [][(uploadProgress = Absent /\ uploadProgress' # Absent)
             => uploadProgress'.startTime = now]_vars
    /\ [][otherProgress' # otherProgress
             => uploadProgress' = uploadProgress]_vars

\* a poll has read the storing record after time has passed since the start
\* of the ingestion, while another request that started later has an entry
C26_Witness ==
    /\ pollResult.status = 200 /\ pollResult.stage = "storing"
    /\ uploadProgress # Absent
    /\ uploadProgress.stage = "storing"
    /\ uploadProgress.startTime < now
    /\ otherProgress # Absent
    /\ otherProgress.startTime > uploadProgress.startTime

(***************************************************************************)
(* C27: for every page with non-empty text the ingestion persists exactly  *)
(* one dedicated fragment per figure of the page, with sectionTitle        *)
(* "Graph k" for the k-th figure, whose content is that figure's block     *)
(* from [FIGURE k] to [END FIGURE k] with the interpretation spliced       *)
(* immediately before [END FIGURE k]; these fragments come in addition to  *)
(* and before the text chunks of the page.                                 *)
(***************************************************************************)
C27_FragmentsOf(p) == SelectSeq(persisted, LAMBDA f : f.pageNumber = p)

\* [FIGURE k], the interpretation (whole, or in its pieces when a $' in it
\* expanded to nothing) and nothing else, [END FIGURE k]
C27_IsEnrichedBlock(content, k) ==
    /\ Len(content) >= 3
    /\ content[1].t = "figure" /\ content[1].n = k
    /\ \A i \in 2..(Len(content) - 1) : content[i].t \in {"block", "blockpart"}
    /\ content[Len(content)].t = "endfigure" /\ content[Len(content)].n = k

C27_PageAsClaimed(page) ==
    LET frags == C27_FragmentsOf(page.pageNumber)
        nfig == Len(page.figureMetadata)
    IN  IF page.text = <<>> THEN frags = <<>>
        ELSE /\ Len(frags) = nfig + 1
             /\ \A k \in 1..nfig :
                   /\ frags[k].sectionTitle = k
                   /\ C27_IsEnrichedBlock(frags[k].content, k)
             /\ frags[nfig + 1].sectionTitle = 0

C27_DedicatedFigureFragments ==
    (epc = "returned" /\ pageCursor > Len(pageTexts)) =>
        \A i \in 1..Len(pageTexts) : C27_PageAsClaimed(pageTexts[i])

\* the same for the pages whose texts hold no $'
C27_WithoutPatterns ==
    (epc = "returned" /\ pageCursor > Len(pageTexts)) =>
        \A i \in 1..Len(pageTexts) :
            (\A k \in 1..Len(pageTexts[i].figureMetadata) :
                \A j \in 1..Len(pageTexts[i].figureMetadata[k].extractedText) :
                    ~HasFollowingPattern(
                        pageTexts[i].figureMetadata[k].extractedText[j]))
                => C27_PageAsClaimed(pageTexts[i])

(***************************************************************************)
(* C28: the eager chunkText(text, size, overlap) terminates and returns a  *)
(* finite list for every non-empty text and every 0 <= overlap < size,     *)
(* and the start offsets of successive chunks are strictly increasing.     *)
(***************************************************************************)
C28_InContract == len > 0 /\ 0 <= overlap /\ overlap < size

C28_StartsStrictlyIncrease ==
    C28_InContract =>
        \A i \in 1..(Len(emitted) - 1) : emitted[i].from < emitted[i + 1].from

\* what the code does instead: with an overlap the call never returns, ...
C28_NoReturnWithOverlap ==
    (C28_InContract /\ overlap > 0) => gpc # "done"

\* ... once a chunk has reached the end of the text the last overlap
\* characters are pushed again and again, ...
C28_TailRepeats ==
    (C28_InContract /\ overlap > 0) =>
        \A i \in 1..(Len(emitted) - 1) :
            emitted[i].to = len =>
                emitted[i + 1] = [from |-> Max(len - overlap, 0), to |-> len]

\* ... and without an overlap the claim holds
C28_WithoutOverlap ==
    (C28_InContract /\ overlap = 0) =>
        /\ \A i \in 1..(Len(emitted) - 1) :
              emitted[i].from < emitted[i + 1].from
        /\ Len(emitted) * size < len + size

(***************************************************************************)
(* C29: whenever min(overlap, size - 1) >= size / 10, and so with the      *)
(* arguments the ingestion passes (size 1000, overlap 150), every          *)
(* character position of a non-empty text lies in at least one fragment    *)
(* emitted by chunkTextGenerator: the early stop drops no text.            *)
(***************************************************************************)
\* the fragments of a whole run cover the text
C29_Covers(frags, l) ==
    \A p \in 0..(l - 1) :
        \E k \in 1..Len(frags) : frags[k].from <= p /\ p < frags[k].to

\* for the page texts of the ingestion only the last fragment matters
C29_IngestionArgumentsCover ==
    \A l \in 1..MaxPageLen :
        LET frags == FragmentsFrom(l, 0, 1000, 150)
        IN  /\ frags # <<>>
            /\ frags[1].from = 0
            /\ frags[Len(frags)].to = l
            /\ \A k \in 1..(Len(frags) - 1) : frags[k + 1].from <= frags[k].to

C29_EarlyStopDropsNothing ==
    /\ (gpc = "done" /\ len > 0 /\ 10 * Min(overlap, size - 1) >= size) =>
          /\ emitted = FragmentsFrom(len, 0, size, overlap)
          /\ C29_Covers(emitted, len)
    /\ C29_IngestionArgumentsCover

\* a run inside the condition that left through the early stop, before the
\* end of the text
C29_Witness ==
    /\ gpc = "done" /\ len > 0 /\ 10 * Min(overlap, size - 1) >= size
    /\ Len(emitted) >= 2
    /\ start < len
    /\ C29_Covers(emitted, len)

(***************************************************************************)
(* C30: if an ingestion aborts with an error after its progress record was *)
(* created, the record stays in the progress map at the last stage and     *)
(* percentage written before the failure: it is never set to complete,     *)
(* never marked failed and never evicted, and every status poll for the    *)
(* document id from then on returns that stale in-progress record.         *)
(***************************************************************************)
C30_Failed == ipc = "failed"

====
